---- MODULE Spec2Model ----
(***************************************************************************)
(* A model of ccusage-go (src/main.go, lines 1-855: the current version of *)
(* the program): the on-disk cache codec, discovery through the directory  *)
(* manifest, and the three-phase reconciliation of per-file records.       *)
(*                                                                         *)
(* Paths are sequences of byte values, so that sort.Strings and the walk   *)
(* order of filepath.WalkDir are computed as the code computes them.       *)
(***************************************************************************)
EXTENDS Integers, Sequences, FiniteSets, TLC

VARIABLES
    \* ---- the environment -------------------------------------------------
    fsFiles,        \* path -> state of the log file at that path
    fsDirs,         \* directory path -> [present, mtime]
    disk,           \* the cache directory: file name -> contents
    tz,             \* getLocalTimezone() of the current run
    now,            \* wall clock, in minutes
    \* ---- main() ----------------------------------------------------------
    pc,             \* position in main / processWithCacheLoaded / saveCache
    run,            \* number of the current run of the program
    flags,          \* [noCache, clearCache]
    loaded,         \* what loadCache returned: [nil, cache]
    cache,          \* the in-memory CacheFile
    cacheValid,
    files,          \* result of findJSONLFiles
    dStats,         \* discoveryStats
    \* ---- processWithCacheLoaded -------------------------------------------
    allEntries,     \* map dedupKey -> EntryData
    stats,          \* cacheStats
    dirty,
    existingFiles,
    misses,         \* sequence of cacheMiss
    results,        \* sequence of fileResult
    task,           \* state of each phase-2 goroutine
    sem,            \* number of tokens in the semaphore channel
    idx,            \* loop index of the sequential phases
    \* ---- saveCache --------------------------------------------------------
    saveBuf,        \* bytes built by saveCache
    saveErr,        \* error returned by the last saveCache
    \* ---- observations (not read by the program) ---------------------------
    opened,         \* paths opened by processFileForCache in this run
    pre,            \* the cache directory when saveCache was entered
    atLoad,         \* the cache directory when the run began
    lastOut,        \* the previous run: its result, its cache, its saveErr
    quiet,          \* the environment has not changed since this run began
    console,        \* what this run has written to stdout and stderr
    call            \* a function called on its own: its argument, its result

vars == << fsFiles, fsDirs, disk, tz, now,
           pc, run, flags, loaded, cache, cacheValid, files, dStats,
           allEntries, stats, dirty, existingFiles, misses, results, task,
           sem, idx, saveBuf, saveErr, opened, pre, atLoad, lastOut, quiet,
           console, call >>

envVars  == << fsFiles, fsDirs, tz, now >>
diskVars == << disk >>
mainVars == << run, flags, loaded, cacheValid, files, dStats >>
procVars == << allEntries, stats, dirty, existingFiles, misses, results,
               task, sem, idx, opened >>
saveVars == << saveBuf, saveErr, pre >>
obsVars  == << atLoad, lastOut, quiet, console, call >>

-----------------------------------------------------------------------------
(* Small helpers on sequences and sets.                                    *)

Range(s) == { s[i] : i \in DOMAIN s }

Max(S) == CHOOSE x \in S : \A y \in S : y <= x

\* All orderings of the finite set S, as sequences without repetition.
Orderings(S) ==
    { s \in [1..Cardinality(S) -> S] : \A i, j \in DOMAIN s : i # j => s[i] # s[j] }

\* Bytewise comparison of two strings (Go's < on string).
RECURSIVE StrLess(_, _)
StrLess(a, b) ==
    IF b = << >> THEN FALSE
    ELSE IF a = << >> THEN TRUE
    ELSE IF Head(a) # Head(b) THEN Head(a) < Head(b)
    ELSE StrLess(Tail(a), Tail(b))

\* strings.HasPrefix
HasPrefix(s, p) == Len(p) <= Len(s) /\ SubSeq(s, 1, Len(p)) = p

\* strings.HasSuffix
HasSuffix(s, x) == Len(x) <= Len(s) /\ SubSeq(s, Len(s) - Len(x) + 1, Len(s)) = x

\* sort.Strings applied to the elements of S.
SortStrings(S) ==
    CHOOSE s \in Orderings(S) : \A i, j \in DOMAIN s : i < j => StrLess(s[i], s[j])

-----------------------------------------------------------------------------
(* The universe of the model: the paths below the projects directory.      *)

Separator == << 47 >>                                  \* "/"
jsonlSuffix == << 46, 106, 115, 111, 110, 108 >>       \* ".jsonl"

projectsDir == << 112 >>                               \* "p"
dirA        == projectsDir \o Separator \o << 97 >>    \* "p/a"
fileTop     == dirA \o jsonlSuffix                     \* "p/a.jsonl"
fileB       == dirA \o Separator \o << 98 >> \o jsonlSuffix   \* "p/a/b.jsonl"
fileC       == dirA \o Separator \o << 99 >> \o jsonlSuffix   \* "p/a/c.jsonl"

DirPaths  == { projectsDir, dirA }
FilePaths == { fileTop, fileB, fileC }

Zones == { "UTC", "PST" }

-----------------------------------------------------------------------------
(* Log lines and processFileForCache.                                      *)

\* json.Unmarshal into LogEntry: a line either fails to parse or yields the
\* fields below (absent fields are the zero value).
BadLine == [ valid |-> FALSE, Timestamp |-> "", RequestID |-> "", ID |-> "",
             Model |-> "", InputTokens |-> 0, OutputTokens |-> 0,
             CacheCreationTokens |-> 0, CacheReadTokens |-> 0 ]

Line(ts, id, req, model, in, out, cw, cr) ==
    [ valid |-> TRUE, Timestamp |-> ts, RequestID |-> req, ID |-> id,
      Model |-> model, InputTokens |-> in, OutputTokens |-> out,
      CacheCreationTokens |-> cw, CacheReadTokens |-> cr ]

\* time.Parse(time.RFC3339, ts) succeeds on these timestamps only.
\* "T0" is 2025-01-01T12:00:00Z, "T1" is 2025-01-02T03:00:00Z.
ParseOK(ts) == ts \in { "T0", "T1" }

\* t.Local().Format("2006-01-02") in the zone of the process.
LocalDate(ts, zone) ==
    IF ts = "T0" THEN "2025-01-01"
    ELSE IF zone = "UTC" THEN "2025-01-02" ELSE "2025-01-01"

EntryData(key, date, model, in, out, cw, cr) ==
    [ Key |-> key, Date |-> date, Model |-> model, InputTokens |-> in,
      OutputTokens |-> out, CacheCreationTokens |-> cw, CacheReadTokens |-> cr ]

ZeroFileStats == [ LinesRead |-> 0, LinesParsed |-> 0, EntriesNew |-> 0 ]

\* The scanner loop with "break" for "continue" at line 509.
RECURSIVE ScanLinesStopAtBadLine(_, _, _, _)
ScanLinesStopAtBadLine(lines, i, zone, acc) ==
    IF i > Len(lines) THEN acc
    ELSE
      LET ln   == lines[i]
          read == [acc EXCEPT !.stats.LinesRead = @ + 1]
          prs  == [read EXCEPT !.stats.LinesParsed = @ + 1]
          key  == ln.ID \o ":" \o ln.RequestID
          model == IF ln.Model = "" THEN "unknown" ELSE ln.Model
          e    == EntryData(key, LocalDate(ln.Timestamp, zone), model,
                            ln.InputTokens, ln.OutputTokens,
                            ln.CacheCreationTokens, ln.CacheReadTokens)
      IN  IF ~ln.valid THEN read
          ELSE IF \/ ln.Timestamp = ""
                  \/ ln.InputTokens = 0 /\ ln.OutputTokens = 0
                  \/ ln.ID = "" \/ ln.RequestID = ""
                  \/ ~ParseOK(ln.Timestamp)
                  \/ key \in DOMAIN prs.entries
               THEN ScanLinesStopAtBadLine(lines, i + 1, zone, prs)
          ELSE ScanLinesStopAtBadLine(lines, i + 1, zone,
                         [ entries |-> (key :> e) @@ prs.entries,
                           stats   |-> [prs.stats EXCEPT !.EntriesNew = @ + 1] ])

\* The scanner loop without the "!exists" test of line 530.
RECURSIVE ScanLinesLastKeyWins(_, _, _, _)
ScanLinesLastKeyWins(lines, i, zone, acc) ==
    IF i > Len(lines) THEN acc
    ELSE
      LET ln   == lines[i]
          read == [acc EXCEPT !.stats.LinesRead = @ + 1]
          prs  == [read EXCEPT !.stats.LinesParsed = @ + 1]
          key  == ln.ID \o ":" \o ln.RequestID
          model == IF ln.Model = "" THEN "unknown" ELSE ln.Model
          e    == EntryData(key, LocalDate(ln.Timestamp, zone), model,
                            ln.InputTokens, ln.OutputTokens,
                            ln.CacheCreationTokens, ln.CacheReadTokens)
      IN  IF ~ln.valid THEN ScanLinesLastKeyWins(lines, i + 1, zone, read)
          ELSE IF \/ ln.Timestamp = ""
                  \/ ln.InputTokens = 0 /\ ln.OutputTokens = 0
                  \/ ln.ID = "" \/ ln.RequestID = ""
                  \/ ~ParseOK(ln.Timestamp)
               THEN ScanLinesLastKeyWins(lines, i + 1, zone, prs)
          ELSE ScanLinesLastKeyWins(lines, i + 1, zone,
                         [ entries |-> (key :> e) @@ prs.entries,
                           stats   |-> [prs.stats EXCEPT !.EntriesNew = @ + 1] ])

\* The body of the scanner loop, folded over the lines from index i on.
\* acc is [entries, stats]; entries is the map key -> EntryData.
RECURSIVE ScanLines(_, _, _, _)
ScanLines(lines, i, zone, acc) ==
    IF i > Len(lines) THEN acc
    ELSE
      LET ln   == lines[i]
          read == [acc EXCEPT !.stats.LinesRead = @ + 1]
          prs  == [read EXCEPT !.stats.LinesParsed = @ + 1]
          key  == ln.ID \o ":" \o ln.RequestID
          model == IF ln.Model = "" THEN "unknown" ELSE ln.Model
          e    == EntryData(key, LocalDate(ln.Timestamp, zone), model,
                            ln.InputTokens, ln.OutputTokens,
                            ln.CacheCreationTokens, ln.CacheReadTokens)
      IN  IF ~ln.valid THEN ScanLines(lines, i + 1, zone, read)
          ELSE IF ln.Timestamp = "" \/ (ln.InputTokens = 0 /\ ln.OutputTokens = 0)
               THEN ScanLines(lines, i + 1, zone, prs)
          ELSE IF ln.ID = "" \/ ln.RequestID = ""
               THEN ScanLines(lines, i + 1, zone, prs)
          ELSE IF ~ParseOK(ln.Timestamp)
               THEN ScanLines(lines, i + 1, zone, prs)
          ELSE IF key \in DOMAIN prs.entries
               THEN ScanLines(lines, i + 1, zone, prs)
          ELSE ScanLines(lines, i + 1, zone,
                         [ entries |-> (key :> e) @@ prs.entries,
                           stats   |-> [prs.stats EXCEPT !.EntriesNew = @ + 1] ])

EmptyMap == [ k \in {} |-> 0 ]

\* processFileForCache on a file in state f: os.Open fails on a missing or
\* unreadable file, which gives no entries and zero stats.
processFileForCacheIgnoringOpen(f, zone) ==
    ScanLines(f.lines, 1, zone, [ entries |-> EmptyMap, stats |-> ZeroFileStats ])
processFileForCache(f, zone) ==
    IF ~f.present \/ ~f.readable
    THEN [ entries |-> EmptyMap, stats |-> ZeroFileStats ]
    ELSE ScanLines(f.lines, 1, zone, [ entries |-> EmptyMap, stats |-> ZeroFileStats ])

\* The slices that "for _, e := range entries" can build from the map: Go's
\* map iteration order is unspecified.
EntrySlices(entries) ==
    { [ i \in 1..Len(o) |-> entries[o[i]] ] : o \in Orderings(DOMAIN entries) }

entryTotalTokensInputOnly(e) == e.InputTokens
entryTotalTokens(e) ==
    e.InputTokens + e.OutputTokens + e.CacheCreationTokens + e.CacheReadTokens

-----------------------------------------------------------------------------
(* Files, stat and the in-memory cache.                                    *)

NoFile == [ present |-> FALSE, statOK |-> FALSE, readable |-> FALSE,
            mtime |-> 0, lines |-> << >> ]

\* A regular, readable log file.
Regular(mtime, lines) ==
    [ present |-> TRUE, statOK |-> TRUE, readable |-> TRUE,
      mtime |-> mtime, lines |-> lines ]

\* A directory entry named *.jsonl on which os.Stat and os.Open fail
\* (a dangling symbolic link).
Dangling == [ present |-> TRUE, statOK |-> FALSE, readable |-> FALSE,
              mtime |-> 0, lines |-> << >> ]

\* A file that os.Stat describes and os.Open refuses (no read permission).
Unreadable(mtime, lines) ==
    [ present |-> TRUE, statOK |-> TRUE, readable |-> FALSE,
      mtime |-> mtime, lines |-> lines ]

\* os.Stat(path): the error, and fi.ModTime().UnixNano() and fi.Size().
\* The size of a file is a function of its contents.
Stat(path) ==
    LET f == fsFiles[path]
    IN  [ err   |-> ~(f.present /\ f.statOK),
          mtime |-> f.mtime,
          size  |-> Len(f.lines) ]

CacheVersion == 2

\* time.Time{}: the zero value of LastFullWalk, long before any run.
ZeroTime == 0

FileCacheEntry(mtime, size, entries) ==
    [ ModTime |-> mtime, Size |-> size, Entries |-> entries ]

\* The CacheFile main() builds when no valid cache was loaded
\* (Dirs is nil: no directory, LastFullWalk is the zero time).
FreshCache(zone) ==
    [ Version |-> CacheVersion, Timezone |-> zone, Files |-> EmptyMap,
      Dirs |-> EmptyMap, LastFullWalk |-> ZeroTime ]

\* m[k] = v on a Go map.
MapSet(m, k, v) == (k :> v) @@ m

\* delete(m, k) for every k in ks.
MapDelete(m, ks) == [ k \in (DOMAIN m) \ ks |-> m[k] ]

-----------------------------------------------------------------------------
(* processWithCacheLoaded: the merge rule.                                 *)

ZeroStats == [ hits |-> 0, misses |-> 0, totalLines |-> 0, totalNew |-> 0,
               conflicts |-> 0 ]

ZeroResult == [ path |-> << >>, mtime |-> 0, size |-> 0, entries |-> << >>,
                stats |-> ZeroFileStats ]

\* "entryTotalTokens(e) > entryTotalTokens(existing)": e replaces existing.
ReplacesLast(e, existing) == TRUE
Replaces(e, existing) == entryTotalTokens(e) > entryTotalTokens(existing)

\* "allEntries[e.Key] = e"
StoreEntryByModel(all, e) == MapSet(all, e.Model, e)
StoreEntry(all, e) == MapSet(all, e.Key, e)

\* One iteration of the merge loop (the same code in phases 1 and 3).
\* acc is [all, totalNew, conflicts].
mergeEntry(acc, e) ==
    IF e.Key \in DOMAIN acc.all
    THEN IF Replaces(e, acc.all[e.Key])
         THEN [acc EXCEPT !.all = StoreEntry(@, e), !.conflicts = @ + 1]
         ELSE acc
    ELSE [acc EXCEPT !.all = StoreEntry(@, e), !.totalNew = @ + 1]

RECURSIVE mergeEntries(_, _, _)
mergeEntries(acc, entries, i) ==
    IF i > Len(entries) THEN acc
    ELSE mergeEntries(mergeEntry(acc, entries[i]), entries, i + 1)

\* The merge loop applied to the current allEntries and stats.
Merged(entries) ==
    mergeEntries([ all |-> allEntries, totalNew |-> stats.totalNew,
                   conflicts |-> stats.conflicts ], entries, 1)

\* "cacheValid && ok && cached.ModTime == mtime && cached.Size == size"
IsHitIgnoringSize(path, fi) ==
    /\ cacheValid
    /\ path \in DOMAIN cache.Files
    /\ cache.Files[path].ModTime = fi.mtime
IsHit(path, fi) ==
    /\ cacheValid
    /\ path \in DOMAIN cache.Files
    /\ cache.Files[path].ModTime = fi.mtime
    /\ cache.Files[path].Size = fi.size

NumCPU == 2

-----------------------------------------------------------------------------
(* processWithCacheLoaded: the three phases.                               *)

\* Lines 560-582: the locals before the first loop.
ProcEnter ==
    /\ pc = "process"
    /\ dirty' = ~cacheValid
    /\ allEntries' = EmptyMap
    /\ stats' = ZeroStats
    /\ existingFiles' = {}
    /\ misses' = << >>
    /\ results' = << >>
    /\ task' = << >>
    /\ sem' = 0
    /\ idx' = 1
    /\ opened' = {}
    /\ pc' = "phase1"
    /\ UNCHANGED << envVars, diskVars, mainVars, cache, saveVars, obsVars >>

\* Phase 1, one iteration of "for _, path := range files".
Phase1Step ==
    /\ pc = "phase1"
    /\ idx <= Len(files)
    /\ LET path == files[idx]
           fi   == Stat(path)
       IN  /\ existingFiles' = existingFiles \cup { path }
           /\ IF fi.err
              THEN UNCHANGED << allEntries, stats, misses >>
              ELSE IF IsHit(path, fi)
              THEN LET m == Merged(cache.Files[path].Entries)
                   IN  /\ allEntries' = m.all
                       /\ stats' = [stats EXCEPT !.hits = @ + 1,
                                                 !.totalNew = m.totalNew,
                                                 !.conflicts = m.conflicts]
                       /\ UNCHANGED misses
              ELSE /\ stats' = [stats EXCEPT !.misses = @ + 1]
                   /\ misses' = Append(misses, [ path |-> path,
                                                 mtime |-> fi.mtime,
                                                 size |-> fi.size ])
                   /\ UNCHANGED allEntries
    /\ idx' = idx + 1
    /\ UNCHANGED << envVars, diskVars, mainVars, cache, saveVars, obsVars,
                    pc, dirty, results, task, sem, opened >>

\* Lines 614-651: the dirty flag, the results array, one goroutine per miss.
Phase1Done ==
    /\ pc = "phase1"
    /\ idx > Len(files)
    /\ dirty' = (dirty \/ Len(misses) > 0)
    /\ results' = [ i \in 1..Len(misses) |-> ZeroResult ]
    /\ task' = [ i \in 1..Len(misses) |-> "spawned" ]
    /\ sem' = 0
    /\ pc' = "phase2"
    /\ UNCHANGED << envVars, diskVars, mainVars, cache, saveVars, obsVars,
                    allEntries, stats, existingFiles, misses, idx, opened >>

\* "sem <- struct{}{}" on a channel of capacity runtime.NumCPU() proceeds
\* when fewer than that many slots are taken.
SemFreeAlways(n) == TRUE
SemFree(n) == n < NumCPU

\* "sem <- struct{}{}": blocks while the channel holds NumCPU tokens.
TaskAcquire(i) ==
    /\ pc = "phase2"
    /\ task[i] = "spawned"
    /\ SemFree(sem)
    /\ sem' = sem + 1
    /\ task' = [task EXCEPT ![i] = "running"]
    /\ UNCHANGED << envVars, diskVars, mainVars, cache, saveVars, obsVars,
                    pc, allEntries, stats, dirty, existingFiles, misses,
                    results, idx, opened >>

\* Lines 638-649 with the result stored in order of completion.
TaskParseCompletionOrder(i) ==
    /\ pc = "phase2"
    /\ task[i] = "running"
    /\ LET miss == misses[i]
           r    == processFileForCache(fsFiles[miss.path], tz)
           slot == Cardinality({ j \in DOMAIN task :
                                   task[j] \in { "stored", "done" } }) + 1
       IN  \E slice \in EntrySlices(r.entries) :
               results' = [results EXCEPT ![slot] =
                              [ path |-> miss.path, mtime |-> miss.mtime,
                                size |-> miss.size, entries |-> slice,
                                stats |-> r.stats ]]
    /\ opened' = opened \cup { misses[i].path }
    /\ task' = [task EXCEPT ![i] = "stored"]
    /\ UNCHANGED << envVars, diskVars, mainVars, cache, saveVars, obsVars,
                    pc, allEntries, stats, dirty, existingFiles, misses,
                    sem, idx >>

\* Lines 638-649 with the cache entry rewritten by the goroutine itself.
TaskParseUpdatingCache(i) ==
    /\ pc = "phase2"
    /\ task[i] = "running"
    /\ LET miss == misses[i]
           r    == processFileForCache(fsFiles[miss.path], tz)
       IN  \E slice \in EntrySlices(r.entries) :
               /\ results' = [results EXCEPT ![i] =
                                [ path |-> miss.path, mtime |-> miss.mtime,
                                  size |-> miss.size, entries |-> slice,
                                  stats |-> r.stats ]]
               /\ cache' = [cache EXCEPT !.Files =
                               MapSet(@, miss.path,
                                      FileCacheEntry(miss.mtime, miss.size, slice))]
    /\ opened' = opened \cup { misses[i].path }
    /\ task' = [task EXCEPT ![i] = "stored"]
    /\ UNCHANGED << envVars, diskVars, mainVars, saveVars, obsVars,
                    pc, allEntries, stats, dirty, existingFiles, misses,
                    sem, idx >>

\* Lines 638-649: parse the file and store the result in slot i.
TaskParse(i) ==
    /\ pc = "phase2"
    /\ task[i] = "running"
    /\ LET miss == misses[i]
           r    == processFileForCache(fsFiles[miss.path], tz)
       IN  \E slice \in EntrySlices(r.entries) :
               results' = [results EXCEPT ![i] =
                              [ path |-> miss.path, mtime |-> miss.mtime,
                                size |-> miss.size, entries |-> slice,
                                stats |-> r.stats ]]
    /\ opened' = opened \cup { misses[i].path }
    /\ task' = [task EXCEPT ![i] = "stored"]
    /\ UNCHANGED << envVars, diskVars, mainVars, cache, saveVars, obsVars,
                    pc, allEntries, stats, dirty, existingFiles, misses,
                    sem, idx >>

\* wg.Done() without the deferred "<-sem".
TaskReleaseKeepsSlot(i) ==
    /\ pc = "phase2"
    /\ task[i] = "stored"
    /\ task' = [task EXCEPT ![i] = "done"]
    /\ UNCHANGED << envVars, diskVars, mainVars, cache, saveVars, obsVars,
                    pc, allEntries, stats, dirty, existingFiles, misses,
                    results, idx, opened, sem >>

\* The deferred "<-sem" and wg.Done().
TaskRelease(i) ==
    /\ pc = "phase2"
    /\ task[i] = "stored"
    /\ sem' = sem - 1
    /\ task' = [task EXCEPT ![i] = "done"]
    /\ UNCHANGED << envVars, diskVars, mainVars, cache, saveVars, obsVars,
                    pc, allEntries, stats, dirty, existingFiles, misses,
                    results, idx, opened >>

\* wg.Wait() returns once every goroutine has called wg.Done().
WaitDone ==
    /\ pc = "phase2"
    /\ \A i \in DOMAIN task : task[i] = "done"
    /\ pc' = "phase3"
    /\ idx' = 1
    /\ UNCHANGED << envVars, diskVars, mainVars, cache, saveVars, obsVars,
                    allEntries, stats, dirty, existingFiles, misses,
                    results, task, sem, opened >>

\* Phase 3 with the file's metadata taken by a new os.Stat at merge time.
Phase3StepStatAtMerge ==
    /\ pc = "phase3"
    /\ idx <= Len(results)
    /\ LET r == results[idx]
           m == Merged(r.entries)
       IN  /\ allEntries' = m.all
           /\ stats' = [stats EXCEPT !.totalLines = @ + r.stats.LinesRead,
                                     !.totalNew = m.totalNew,
                                     !.conflicts = m.conflicts]
           /\ cache' = [cache EXCEPT !.Files =
                           MapSet(@, r.path,
                                  FileCacheEntry(Stat(r.path).mtime,
                                                 Stat(r.path).size, r.entries))]
    /\ idx' = idx + 1
    /\ UNCHANGED << envVars, diskVars, mainVars, saveVars, obsVars,
                    pc, dirty, existingFiles, misses, results, task, sem,
                    opened >>

\* Phase 3, one iteration of "for ri := range results".
Phase3Step ==
    /\ pc = "phase3"
    /\ idx <= Len(results)
    /\ LET r == results[idx]
           m == Merged(r.entries)
       IN  /\ allEntries' = m.all
           /\ stats' = [stats EXCEPT !.totalLines = @ + r.stats.LinesRead,
                                     !.totalNew = m.totalNew,
                                     !.conflicts = m.conflicts]
           /\ cache' = [cache EXCEPT !.Files =
                           MapSet(@, r.path,
                                  FileCacheEntry(r.mtime, r.size, r.entries))]
    /\ idx' = idx + 1
    /\ UNCHANGED << envVars, diskVars, mainVars, saveVars, obsVars,
                    pc, dirty, existingFiles, misses, results, task, sem,
                    opened >>

\* "for path := range cache.Files { if !existingFiles[path] {": the cached
\* paths that phase 1 did not meet in the file list.
DeletedFilesNone(c, existing) == {}
\* Only the entries of undiscovered paths that name no file any more.
DeletedFilesOnlyMissing(c, existing) ==
    { p \in (DOMAIN c.Files) \ existing : Stat(p).err }
\* existingFiles[path] set only after a successful os.Stat.
DeletedFilesNotStated(c, existing) ==
    (DOMAIN c.Files) \ { p \in existing : ~Stat(p).err }
DeletedFiles(c, existing) == (DOMAIN c.Files) \ existing

\* Lines 677-685: drop the entries of files that were not discovered, return.
Phase3Done ==
    /\ pc = "phase3"
    /\ idx > Len(results)
    /\ LET gone == DeletedFiles(cache, existingFiles)
       IN  /\ dirty' = (dirty \/ gone # {})
           /\ cache' = [cache EXCEPT !.Files = MapDelete(@, gone)]
    /\ pc' = "output"
    /\ UNCHANGED << envVars, diskVars, mainVars, saveVars, obsVars,
                    allEntries, stats, existingFiles, misses, results, task,
                    sem, idx, opened >>

Process ==
    \/ ProcEnter
    \/ Phase1Step
    \/ Phase1Done
    \/ \E i \in DOMAIN task : TaskAcquire(i)
    \/ \E i \in DOMAIN task : TaskParse(i)
    \/ \E i \in DOMAIN task : TaskRelease(i)
    \/ WaitDone
    \/ Phase3Step
    \/ Phase3Done

-----------------------------------------------------------------------------
(* The log contents of the model.                                          *)

\* Two observations of request m1:r1 with the same token sum (3) and
\* different counters, model and timestamp; a later, larger one (5).
LineA1   == Line("T0", "m1", "r1", "opus", 1, 2, 0, 0)
LineA2   == Line("T1", "m1", "r1", "sonnet", 2, 1, 0, 0)
LineA3   == Line("T0", "m1", "r1", "opus", 2, 2, 1, 0)
\* Another request, with no model name.
LineB    == Line("T0", "m2", "r1", "", 1, 0, 0, 1)
\* Lines the parser drops.
LineNoTs == Line("", "m3", "r1", "opus", 1, 1, 0, 0)
LineNoId == Line("T0", "", "r1", "opus", 1, 1, 0, 0)
LineBadTs == Line("bad", "m3", "r1", "opus", 1, 1, 0, 0)

Content1 == << LineA1, LineB >>
Content2 == << LineA2 >>
Content3 == << BadLine, LineNoTs, LineA3, LineNoId, LineA1, LineBadTs >>

\* One of the slices a parse of these lines can leave in a cache entry.
ParsedSlice(lines, zone) ==
    CHOOSE sl \in EntrySlices(processFileForCache(Regular(1, lines), zone).entries) : TRUE

-----------------------------------------------------------------------------
(* Values of the variables a specification does not use.                   *)

Absent == [ kind |-> "absent" ]

NoFlags == [ noCache |-> FALSE, clearCache |-> FALSE ]

ZeroDStats == [ dirsChecked |-> 0, dirsChanged |-> 0, subtreesWalked |-> 0,
                filesFromCache |-> 0, fullWalk |-> FALSE ]

cachePath  == "cache.bin"
legacyPath == "cache.json"
tmpPathIsCachePath == cachePath
tmpPath    == "cache.bin.tmp"

EmptyDisk == [ n \in { cachePath, legacyPath, "cache.bin.tmp" } |-> Absent ]

\* Nothing printed yet: no table on stdout, no line on stderr.
NoPrint == [ printed |-> FALSE, table |-> EmptyMap, stderr |-> << >> ]

\* No function has been called on its own.
NoCall == [ arg |-> << >>, ret |-> << >> ]

NoOutput == [ done |-> FALSE, quiet |-> TRUE, saveErr |-> "none",
              tz |-> "", entries |-> EmptyMap,
              snap |-> FreshCache("") ]

-----------------------------------------------------------------------------
(* SpecMerge: processWithCacheLoaded as a function of its arguments, the   *)
(* file list in any order, over any cache the program can hold.            *)

\* A cache entry that matches the file's metadata, and one that does not
\* (a changed modification time, or for fileC a changed size).
FreshEntry(fs, path, zone) ==
    IF fs[path].statOK
    THEN FileCacheEntry(fs[path].mtime, Len(fs[path].lines),
                        ParsedSlice(fs[path].lines, zone))
    ELSE FileCacheEntry(1, Len(Content1), ParsedSlice(Content1, zone))

StaleEntry(fs, path, zone) ==
    IF path = fileC
    THEN FileCacheEntry(fs[path].mtime, Len(fs[path].lines) + 1,
                        ParsedSlice(Content2, zone))
    ELSE FileCacheEntry(fs[path].mtime - 1, Len(fs[path].lines),
                        ParsedSlice(Content2, zone))

MergeFileSystems ==
    { [ p \in FilePaths |->
          IF p = fileTop THEN t ELSE IF p = fileB THEN b ELSE c ] :
        t \in { Regular(2, Content1), Dangling },
        b \in { Regular(2, Content2), Regular(2, Content3) },
        c \in { Regular(2, Content1), Regular(2, Content3), Dangling,
                Unreadable(2, Content1) } }

MergeCacheFiles(fs, zone) ==
    UNION { { [ p \in D |-> IF p \in F THEN FreshEntry(fs, p, zone)
                                      ELSE StaleEntry(fs, p, zone) ] :
                F \in SUBSET D } :
            D \in SUBSET FilePaths }

InitMerge ==
    /\ tz = "UTC"
    /\ now = 10
    /\ fsFiles \in MergeFileSystems
    /\ fsDirs = [ d \in DirPaths |-> [ present |-> TRUE, mtime |-> 1 ] ]
    /\ disk = EmptyDisk
    /\ pc = "process"
    /\ run = 1
    /\ flags = NoFlags
    /\ cacheValid \in BOOLEAN
    /\ cache \in IF cacheValid
                 THEN { [ FreshCache(tz) EXCEPT !.Files = cf ] :
                            cf \in MergeCacheFiles(fsFiles, tz) }
                 ELSE { FreshCache(tz) }
    /\ loaded = [ nil |-> ~cacheValid, cache |-> cache ]
    /\ \E S \in { FilePaths, FilePaths \ { fileC } } : files \in Orderings(S)
    /\ dStats = ZeroDStats
    /\ allEntries = EmptyMap
    /\ stats = ZeroStats
    /\ dirty = FALSE
    /\ existingFiles = {}
    /\ misses = << >>
    /\ results = << >>
    /\ task = << >>
    /\ sem = 0
    /\ idx = 1
    /\ saveBuf = Absent
    /\ saveErr = "none"
    /\ opened = {}
    /\ pre = EmptyDisk
    /\ atLoad = EmptyDisk
    /\ lastOut = NoOutput
    /\ quiet = TRUE
    /\ console = NoPrint
    /\ call = NoCall

SpecMerge == InitMerge /\ [][Process]_vars

-----------------------------------------------------------------------------
(* Claims about the merge (checked under SpecMerge).                       *)

MissPaths == { misses[i].path : i \in DOMAIN misses }

\* The discovered files whose stat succeeds: each is a hit or a miss.
Contributors == { f \in Range(files) : ~Stat(f).err }

HitPaths == Contributors \ MissPaths

\* Once processWithCacheLoaded has returned, the cache entry of a contributor
\* holds the records the file contributed: the stored ones of a hit, the
\* parsed ones of a miss.
Contributed(f) == Range(cache.Files[f].Entries)

ContributedWithKey(k) ==
    { e \in UNION { Contributed(f) : f \in Contributors } : e.Key = k }

ContributedKeys ==
    { e.Key : e \in UNION { Contributed(f) : f \in Contributors } }

\* C1: for every dedupKey that occurs in the records of the files (in two or
\* more of them in particular), the record kept in the merged result has the
\* maximum token sum among those records, for every order of the file list
\* and every split between hits and misses.
C1_MaxSumKept ==
    pc = "output" =>
        \A k \in ContributedKeys :
            /\ k \in DOMAIN allEntries
            /\ entryTotalTokens(allEntries[k]) =
                   Max({ entryTotalTokens(e) : e \in ContributedWithKey(k) })

\* A hit and a miss hold records of one key with different sums, and the
\* file with the larger sum comes first or last in the list.
C1_Witness ==
    /\ pc = "output"
    /\ \E f \in HitPaths, g \in MissPaths :
         \E ef \in Contributed(f), eg \in Contributed(g) :
            /\ ef.Key = eg.Key
            /\ entryTotalTokens(ef) > entryTotalTokens(eg)
            /\ allEntries[ef.Key] = ef
    /\ \E f \in HitPaths, g \in MissPaths :
         \E ef \in Contributed(f), eg \in Contributed(g) :
            /\ ef.Key = eg.Key
            /\ entryTotalTokens(ef) = entryTotalTokens(eg)
            /\ ef # eg

\* The merge loop applied to the contributors' records in the order given.
RECURSIVE FoldFiles(_, _, _)
FoldFiles(acc, order, i) ==
    IF i > Len(order) THEN acc
    ELSE FoldFiles(mergeEntries(acc, cache.Files[order[i]].Entries, 1),
                   order, i + 1)

MergeInOrder(order) ==
    FoldFiles([ all |-> EmptyMap, totalNew |-> 0, conflicts |-> 0 ], order, 1).all

\* C2: the merge is order-independent: the result of the run (its file
\* order, its split between hits and misses) is the record map that merging
\* the same per-file records in any other order gives, also when records of
\* one key have equal sums and differ in other fields.
C2_OrderIndependent ==
    pc = "output" =>
        \A order \in Orderings(Contributors) : allEntries = MergeInOrder(order)

\* C3: the merged result holds at most one record per dedupKey, at every
\* point of phases 1 and 3, and the record stored under key k has Key = k.
C3_UniqueKeys ==
    /\ \A k \in DOMAIN allEntries : allEntries[k].Key = k
    /\ \A k1, k2 \in DOMAIN allEntries :
           allEntries[k1].Key = allEntries[k2].Key => k1 = k2

\* Phase 3 has replaced a record of a key that a hit had stored, and the
\* result holds two keys.
C3_Witness ==
    /\ pc = "phase3"
    /\ idx > 1
    /\ stats.hits > 0
    /\ stats.conflicts > 0
    /\ Cardinality(DOMAIN allEntries) = 2

\* The condition under which phase 1 queues a file whose stat succeeded.
NeedsParse(f) ==
    \/ ~cacheValid
    \/ f \notin DOMAIN cache.Files
    \/ cache.Files[f].ModTime # Stat(f).mtime
    \/ cache.Files[f].Size # Stat(f).size

\* Phase 1 is over and phase 3 has not yet rewritten a cache entry.
AfterPhase1 == pc = "phase2" \/ (pc = "phase3" /\ idx = 1)

\* The stored records of f are in the merged result.
StoredMerged(f) ==
    /\ f \in DOMAIN cache.Files
    /\ \A e \in Range(cache.Files[f].Entries) : e.Key \in DOMAIN allEntries

\* C5 (amended): for every discovered file whose stat succeeds, phase 1
\* queues the file for parsing iff the cache is invalid or the file's
\* (modTime, size) differ from its cache entry (no entry counts as
\* differing); otherwise it is a hit, its stored records are merged and the
\* file is never opened. Every queued file is parsed, and no other file is.
C5_ReparseIffChanged ==
    /\ opened \subseteq MissPaths
    /\ pc = "phase3" => opened = MissPaths
    /\ AfterPhase1 =>
         /\ \A f \in Contributors :
               IF NeedsParse(f) THEN f \in MissPaths
               ELSE f \notin MissPaths /\ StoredMerged(f)
         /\ stats.misses = Cardinality(MissPaths)
         /\ stats.hits = Cardinality(HitPaths)

\* A valid cache with a hit, a miss with a stale entry and a miss with no
\* entry, all parsed.
C5_Witness ==
    /\ pc = "phase3" /\ idx = 1
    /\ cacheValid
    /\ HitPaths # {}
    /\ \E g \in MissPaths : g \in DOMAIN cache.Files
    /\ \E g \in MissPaths : g \notin DOMAIN cache.Files
    /\ opened = MissPaths

\* C5 as stated, for every discovered file: a file whose stat fails has no
\* (modTime, size) equal to the stored ones.
C5_EveryDiscoveredFile ==
    AfterPhase1 =>
        \A f \in Range(files) :
            IF Stat(f).err \/ NeedsParse(f) THEN f \in MissPaths
            ELSE f \notin MissPaths /\ StoredMerged(f)

\* os.Open(f) succeeds.
Openable(f) == fsFiles[f].present /\ fsFiles[f].readable

\* The records f has contributed once processWithCacheLoaded has returned.
RecordsOf(f) ==
    IF f \in Contributors /\ f \in DOMAIN cache.Files
    THEN Range(cache.Files[f].Entries) ELSE {}

\* C12 as stated: every discovered file that cannot be opened contributes
\* zero records.
C12_UnopenableContributesNothing ==
    pc = "output" =>
        \A f \in Range(files) : ~Openable(f) => RecordsOf(f) = {}

\* C12 (amended): a discovered file whose stat fails, or whose open fails
\* when the run parses it, contributes zero records (every record of the
\* result comes from another file) and stops nothing: every queued file
\* gets its result, and every other discovered file is processed (the parsed
\* records of a miss, the stored ones of a hit) with each of its keys in the
\* merged result.
C12_FailedOpenContributesNothing ==
    /\ pc = "phase3" =>
         /\ Len(results) = Len(misses)
         /\ \A i \in DOMAIN misses : results[i].path = misses[i].path
    /\ pc = "output" =>
         \A k \in DOMAIN allEntries :
            \E f \in Contributors :
               /\ f \in opened => Openable(f)
               /\ allEntries[k] \in RecordsOf(f)
    /\ pc = "output" =>
         \A f \in Range(files) :
            IF Stat(f).err
            THEN f \notin opened /\ f \notin MissPaths
            ELSE IF f \in opened /\ ~Openable(f)
            THEN cache.Files[f].Entries = << >>
            ELSE /\ f \in DOMAIN cache.Files
                 /\ f \in opened =>
                      Range(cache.Files[f].Entries) =
                          Range(ParsedSlice(fsFiles[f].lines, tz))
                 /\ \A e \in RecordsOf(f) : e.Key \in DOMAIN allEntries

\* A run over a file whose stat fails, a file whose open fails and a readable
\* file whose records are in the result.
C12_Witness ==
    /\ pc = "output"
    /\ \E f \in Range(files) : Stat(f).err
    /\ \E f \in Range(files) : f \in opened /\ ~Openable(f)
    /\ \E f \in Range(files) :
          /\ f \in opened /\ Openable(f)
          /\ RecordsOf(f) # {}
          /\ \A e \in RecordsOf(f) : e.Key \in DOMAIN allEntries

\* The cache processWithCacheLoaded was given.
CacheAtStart == IF cacheValid THEN loaded.cache ELSE FreshCache(tz)

\* The cached paths that are no longer in the discovered file list.
NotDiscovered == (DOMAIN CacheAtStart.Files) \ Range(files)

\* The cached paths that no longer name a file os.Stat can describe.
Disappeared ==
    { f \in DOMAIN CacheAtStart.Files : f \notin Range(files) \/ Stat(f).err }

\* C13 as stated: dirty is true exactly when the cache was invalid at start,
\* a file was a miss, or a previously cached file has disappeared.
C13_DirtyIffDisappeared ==
    pc = "output" =>
        (dirty <=> (~cacheValid \/ misses # << >> \/ Disappeared # {}))

\* C13 (amended): dirty is true exactly when the cache was invalid at start,
\* a file was a miss, or a cached path is no longer in the discovered file
\* list; it is false when every discovered file is a hit or fails its stat
\* and every cached path was discovered.
C13_DirtyIffNotDiscovered ==
    pc = "output" =>
        (dirty <=> (~cacheValid \/ misses # << >> \/ NotDiscovered # {}))

\* A valid cache, no miss, and a cached path that was not discovered: dirty.
C13_Witness ==
    /\ pc = "output"
    /\ cacheValid /\ misses = << >> /\ stats.hits > 0
    /\ NotDiscovered # {}
    /\ dirty

\* A valid cache and every discovered file a hit, no cached path missing:
\* not dirty.
C13_WitnessClean ==
    /\ pc = "output"
    /\ cacheValid /\ stats.hits = Len(files)
    /\ NotDiscovered = {}
    /\ ~dirty

\* The tasks that hold a semaphore slot: parsing, or parsed and not yet
\* released.
Holding == { i \in DOMAIN task : task[i] \in { "running", "stored" } }

\* C15: during phase 2, in every state, the number of tasks holding a
\* semaphore slot (parsing a file) is at most the processor count, however
\* many misses were queued.
C15_BoundedParsers ==
    pc = "phase2" =>
        /\ Cardinality(Holding) <= NumCPU
        /\ sem = Cardinality(Holding)

\* More misses than processors: the semaphore is full and a task waits.
C15_Witness ==
    /\ pc = "phase2"
    /\ Len(misses) > NumCPU
    /\ Cardinality(Holding) = NumCPU
    /\ \E i \in DOMAIN task : task[i] = "spawned"

\* The hits in the order of the file list, then the misses in the order they
\* were queued.
MergeSequence ==
    SelectSeq(files, LAMBDA f : f \in HitPaths) \o
        [ i \in DOMAIN misses |-> misses[i].path ]

RECURSIVE LinesReadFrom(_)
LinesReadFrom(i) ==
    IF i > Len(misses) THEN 0
    ELSE processFileForCache(fsFiles[misses[i].path], tz).stats.LinesRead
             + LinesReadFrom(i + 1)

\* C16: the output of reconciliation does not depend on the scheduling of
\* the parse tasks: for every interleaving, phase 3 finds the result of the
\* i-th queued miss in slot i, and the merged record map, the statistics and
\* the rewritten cache entries are those of merging the hits and then the
\* misses in queue order.
C16_SchedulingIndependent ==
    /\ pc = "phase3" =>
         \A i \in DOMAIN misses :
            /\ results[i].path = misses[i].path
            /\ results[i].mtime = misses[i].mtime
            /\ results[i].size = misses[i].size
            /\ Range(results[i].entries) =
                   IF Openable(misses[i].path)
                   THEN Range(ParsedSlice(fsFiles[misses[i].path].lines, tz))
                   ELSE {}
    /\ pc = "output" =>
         LET m == FoldFiles([ all |-> EmptyMap, totalNew |-> 0, conflicts |-> 0 ],
                            MergeSequence, 1)
         IN  /\ allEntries = m.all
             /\ stats.totalNew = m.totalNew
             /\ stats.conflicts = m.conflicts
             /\ stats.totalLines = LinesReadFrom(1)
             /\ \A i \in DOMAIN misses :
                   /\ cache.Files[misses[i].path].ModTime = misses[i].mtime
                   /\ cache.Files[misses[i].path].Size = misses[i].size

\* Three misses parsed by two workers, the first queued one finishing last,
\* with two of them holding a record of the same key and token sum.
C16_Witness ==
    /\ pc = "phase2"
    /\ Len(misses) = 3
    /\ task = << "running", "done", "done" >>
    /\ \E a, b \in DOMAIN misses :
          /\ a # b
          /\ \E ea \in Range(results[a].entries) :
                \E eb \in Range(ParsedSlice(fsFiles[misses[b].path].lines, tz)) :
                   /\ ea.Key = eb.Key /\ ea # eb
                   /\ entryTotalTokens(ea) = entryTotalTokens(eb)

-----------------------------------------------------------------------------
(* The persistence codec: saveCache, loadCache, loadLegacyJSONCache.       *)

cacheMagic == << 67, 67, 85, 71 >>                     \* 'C','C','U','G'

\* binary.LittleEndian.PutUint32 and Uint32.
PutUint32(v) ==
    << v % 256, (v \div 256) % 256, (v \div 65536) % 256,
       (v \div 16777216) % 256 >>

Uint32(b) == b[1] + 256 * b[2] + 65536 * b[3] + 16777216 * b[4]

\* intern(s) without the stringIndex lookup of lines 429-431.
InternAlwaysAppends(table, s) ==
    [ table |-> Append(table, s), idx |-> Len(table) ]

\* intern(s): the index of s in the string table (Go indices start at 0),
\* appending s when it is not there yet.
Intern(table, s) ==
    IF \E i \in DOMAIN table : table[i] = s
    THEN [ table |-> table,
           idx   |-> (CHOOSE i \in DOMAIN table : table[i] = s) - 1 ]
    ELSE [ table |-> Append(table, s), idx |-> Len(table) ]

EncodedEntry(e, dateIdx, modelIdx) ==
    [ Key |-> e.Key, DateIdx |-> dateIdx, ModelIdx |-> modelIdx,
      InputTokens |-> e.InputTokens, OutputTokens |-> e.OutputTokens,
      CacheCreationTokens |-> e.CacheCreationTokens,
      CacheReadTokens |-> e.CacheReadTokens ]

\* "for i, e := range fe.Entries": acc is [table, out].
RECURSIVE EncodeEntries(_, _, _)
EncodeEntries(entries, i, acc) ==
    IF i > Len(entries) THEN acc
    ELSE LET d == Intern(acc.table, entries[i].Date)
             m == Intern(d.table, entries[i].Model)
         IN  EncodeEntries(entries, i + 1,
                 [ table |-> m.table,
                   out   |-> Append(acc.out,
                                    EncodedEntry(entries[i], d.idx, m.idx)) ])

\* "for path, fe := range cache.Files", in the iteration order given:
\* acc is [table, files].
RECURSIVE EncodeFiles(_, _, _, _)
EncodeFiles(cf, order, i, acc) ==
    IF i > Len(order) THEN acc
    ELSE LET fe == cf[order[i]]
             r  == EncodeEntries(fe.Entries, 1,
                                 [ table |-> acc.table, out |-> << >> ])
         IN  EncodeFiles(cf, order, i + 1,
                 [ table |-> r.table,
                   files |-> MapSet(acc.files, order[i],
                                    [ ModTime |-> fe.ModTime, Size |-> fe.Size,
                                      Entries |-> r.out ]) ])

\* Lines 425-466: the EncodedCache of a CacheFile.
Encode(c, order) ==
    LET t0 == Intern(<< >>, c.Timezone).table
        r  == EncodeFiles(c.Files, order, 1, [ table |-> t0, files |-> EmptyMap ])
    IN  [ StringTable |-> r.table, Files |-> r.files, Dirs |-> c.Dirs,
          LastFullWalk |-> c.LastFullWalk ]

\* The contents of a file of the cache directory. A gob payload that decodes
\* carries its EncodedCache; one that does not has gob = FALSE.
NoEncoded == [ StringTable |-> << >>, Files |-> EmptyMap, Dirs |-> EmptyMap,
               LastFullWalk |-> ZeroTime ]

BinFile(header, gob, enc) ==
    [ kind |-> "bin", header |-> header, gob |-> gob, enc |-> enc ]

\* What a write that stopped half-way leaves behind.
Partial == [ kind |-> "partial" ]

JsonFile(ok, c) == [ kind |-> "json", ok |-> ok, value |-> c ]

\* Lines 468-477: magic, version and the gob encoding of the payload.
Marshal(c, order) ==
    BinFile(cacheMagic \o PutUint32(CacheVersion), TRUE, Encode(c, order))

NilCache == [ nil |-> TRUE, cache |-> FreshCache("") ]

\* loadLegacyJSONCache on the contents of cache.json.
loadLegacyJSONCacheIgnored(legacy) == NilCache
loadLegacyJSONCache(legacy) ==
    IF legacy.kind # "json" \/ ~legacy.ok THEN NilCache
    ELSE [ nil |-> FALSE, cache |-> legacy.value ]

\* "encoded.StringTable[idx]" guarded by "idx >= 0 && idx < len".
LookupOneBased(table, i) ==
    IF i >= 1 /\ i <= Len(table) THEN table[i] ELSE ""
Lookup(table, i) ==
    IF i >= 0 /\ i < Len(table) THEN table[i + 1] ELSE ""

DecodeEntry(table, ee) ==
    EntryData(ee.Key, Lookup(table, ee.DateIdx), Lookup(table, ee.ModelIdx),
              ee.InputTokens, ee.OutputTokens, ee.CacheCreationTokens,
              ee.CacheReadTokens)

\* Lines 377-416: de-interning.
Decode(enc, version) ==
    [ Version  |-> version,
      Timezone |-> IF Len(enc.StringTable) > 0 THEN enc.StringTable[1] ELSE "",
      Files    |-> [ path \in DOMAIN enc.Files |->
                       FileCacheEntry(enc.Files[path].ModTime,
                                      enc.Files[path].Size,
                                      [ i \in DOMAIN enc.Files[path].Entries |->
                                          DecodeEntry(enc.StringTable,
                                                      enc.Files[path].Entries[i]) ]) ],
      Dirs     |-> enc.Dirs,
      LastFullWalk |-> enc.LastFullWalk ]

\* loadCache on the contents of cache.bin and cache.json.
loadCacheLegacyOnBadVersion(bin, legacy) ==
    IF bin.kind = "absent" THEN loadLegacyJSONCache(legacy)
    ELSE IF bin.kind # "bin" THEN NilCache
    ELSE IF Len(bin.header) < 8 THEN loadLegacyJSONCache(legacy)
    ELSE IF SubSeq(bin.header, 1, 4) # cacheMagic THEN loadLegacyJSONCache(legacy)
    ELSE IF Uint32(SubSeq(bin.header, 5, 8)) # CacheVersion
         THEN loadLegacyJSONCache(legacy)
    ELSE IF ~bin.gob THEN NilCache
    ELSE [ nil |-> FALSE,
           cache |-> Decode(bin.enc, Uint32(SubSeq(bin.header, 5, 8))) ]
loadCache(bin, legacy) ==
    IF bin.kind = "absent" THEN loadLegacyJSONCache(legacy)
    ELSE IF bin.kind # "bin" THEN NilCache
    ELSE IF Len(bin.header) < 8 THEN loadLegacyJSONCache(legacy)
    ELSE IF SubSeq(bin.header, 1, 4) # cacheMagic THEN loadLegacyJSONCache(legacy)
    ELSE IF Uint32(SubSeq(bin.header, 5, 8)) # CacheVersion THEN NilCache
    ELSE IF ~bin.gob THEN NilCache
    ELSE [ nil |-> FALSE,
           cache |-> Decode(bin.enc, Uint32(SubSeq(bin.header, 5, 8))) ]

-----------------------------------------------------------------------------
(* saveCache, step by step: each step is a system call that can fail, and  *)
(* the process can stop between any two of them.                           *)

\* os.Rename(from, to) on the cache directory.
Rename(d, from, to) ==
    IF from = to THEN d
    ELSE [d EXCEPT ![to] = d[from], ![from] = Absent]

\* Lines 420-477: MkdirAll, then the bytes to write. The string table follows
\* the iteration order of cache.Files, which Go leaves unspecified.
SaveBegin ==
    /\ pc = "save"
    /\ pre' = disk
    /\ \/ /\ \E order \in Orderings(DOMAIN cache.Files) :
                 saveBuf' = Marshal(cache, order)
          /\ pc' = "save_open"
          /\ UNCHANGED saveErr
       \/ /\ saveErr' = "mkdir"
          /\ pc' = "exit"
          /\ UNCHANGED saveBuf
    /\ UNCHANGED << envVars, diskVars, mainVars, cache, procVars, obsVars >>

\* os.WriteFile(tmpPath, ...): the file is created or truncated first.
SaveOpenTmp ==
    /\ pc = "save_open"
    /\ \/ /\ disk' = [disk EXCEPT ![tmpPath] = Partial]
          /\ pc' = "save_write"
          /\ UNCHANGED saveErr
       \/ /\ saveErr' = "write"
          /\ pc' = "exit"
          /\ UNCHANGED disk
    /\ UNCHANGED << envVars, mainVars, cache, procVars, obsVars, saveBuf, pre >>

\* os.WriteFile, the write itself: all the bytes, or an error part-way.
SaveWriteTmp ==
    /\ pc = "save_write"
    /\ \/ /\ disk' = [disk EXCEPT ![tmpPath] = saveBuf]
          /\ pc' = "save_remove"
          /\ UNCHANGED saveErr
       \/ /\ saveErr' = "write"
          /\ pc' = "exit"
          /\ UNCHANGED disk
    /\ UNCHANGED << envVars, mainVars, cache, procVars, obsVars, saveBuf, pre >>

\* Line 485: os.Remove(getLegacyCachePath()).
SaveRemoveLegacy ==
    /\ pc = "save_remove"
    /\ disk' = [disk EXCEPT ![legacyPath] = Absent]
    /\ pc' = "save_rename"
    /\ UNCHANGED << envVars, mainVars, cache, procVars, obsVars, saveBuf,
                    saveErr, pre >>

\* Line 487: os.Rename(tmpPath, getCachePath()), atomic, or an error.
SaveRename ==
    /\ pc = "save_rename"
    /\ \/ /\ disk' = Rename(disk, tmpPath, cachePath)
          /\ saveErr' = "ok"
       \/ /\ saveErr' = "rename"
          /\ UNCHANGED disk
    /\ pc' = "exit"
    /\ UNCHANGED << envVars, mainVars, cache, procVars, obsVars, saveBuf, pre >>

Save ==
    \/ SaveBegin
    \/ SaveOpenTmp
    \/ SaveWriteTmp
    \/ SaveRemoveLegacy
    \/ SaveRename

-----------------------------------------------------------------------------
(* main(): the start of a run.                                             *)

MaxRuns == 2

FlagChoices ==
    { NoFlags,
      [ noCache |-> TRUE, clearCache |-> FALSE ],
      [ noCache |-> FALSE, clearCache |-> TRUE ] }

\* Lines 803-805: cacheValid.
IsValidIgnoringZone(ld, zone) ==
    /\ ~ld.nil
    /\ ld.cache.Version = CacheVersion
IsValid(ld, zone) ==
    /\ ~ld.nil
    /\ ld.cache.Version = CacheVersion
    /\ ld.cache.Timezone = zone

\* Line 800: "if !*noCache && !*clearCache { cache = loadCache() }".
ReadsSnapshotUnlessCleared(fl) == ~fl.clearCache
ReadsSnapshot(fl) == ~fl.noCache /\ ~fl.clearCache

\* Lines 787-812: the flags, --clear-cache, loadCache, cacheValid.
Load ==
    /\ pc = "load"
    /\ \E fl \in FlagChoices :
         LET d1 == IF fl.clearCache
                   THEN [disk EXCEPT ![cachePath] = Absent, ![legacyPath] = Absent]
                   ELSE disk
             ld == IF ReadsSnapshot(fl)
                   THEN loadCache(d1[cachePath], d1[legacyPath])
                   ELSE NilCache
         IN  /\ flags' = fl
             /\ disk' = d1
             /\ loaded' = ld
             /\ cacheValid' = IsValid(ld, tz)
             /\ cache' = IF IsValid(ld, tz) THEN ld.cache ELSE FreshCache(tz)
    /\ atLoad' = disk
    /\ pc' = "discover"
    /\ UNCHANGED << envVars, run, files, dStats, procVars, saveVars,
                    lastOut, quiet, console, call >>

\* The program is started again, a minute or more than five minutes later.
Restart ==
    /\ pc = "exit"
    /\ run < MaxRuns
    /\ run' = run + 1
    /\ \E dt \in { 1, 6 } : now' = now + dt
    /\ lastOut' = [ done |-> TRUE, quiet |-> quiet, saveErr |-> saveErr,
                    tz |-> tz, entries |-> allEntries, snap |-> cache ]
    /\ quiet' = TRUE
    /\ console' = NoPrint
    /\ UNCHANGED call
    /\ pc' = "load"
    /\ flags' = NoFlags
    /\ loaded' = NilCache
    /\ cache' = FreshCache(tz)
    /\ cacheValid' = FALSE
    /\ files' = << >>
    /\ dStats' = ZeroDStats
    /\ allEntries' = EmptyMap
    /\ stats' = ZeroStats
    /\ dirty' = FALSE
    /\ existingFiles' = {}
    /\ misses' = << >>
    /\ results' = << >>
    /\ task' = << >>
    /\ sem' = 0
    /\ idx' = 1
    /\ opened' = {}
    /\ saveBuf' = Absent
    /\ saveErr' = "none"
    /\ pre' = EmptyDisk
    /\ UNCHANGED << fsFiles, fsDirs, tz, disk, atLoad >>

-----------------------------------------------------------------------------
(* SpecCodec: saveCache on any snapshot a run can hold, over any cache     *)
(* directory, followed by the loadCache of the next run.                   *)

CodecFileSystem ==
    [ p \in FilePaths |->
        IF p = fileB THEN Regular(2, Content3) ELSE Regular(2, Content1) ]

CodecSnapshots ==
    { [ Version |-> CacheVersion, Timezone |-> z, Files |-> cf, Dirs |-> ds,
        LastFullWalk |-> t ] :
        z \in Zones,
        cf \in MergeCacheFiles(CodecFileSystem, "UTC"),
        ds \in { EmptyMap, (projectsDir :> 1) @@ (dirA :> 2) },
        t \in { 4, 10 } }

\* A cache.bin written by an earlier run, and one that is not a cache.
OlderSnapshot ==
    [ Version |-> CacheVersion, Timezone |-> "UTC",
      Files |-> (fileTop :> FileCacheEntry(1, 1, ParsedSlice(Content2, "UTC"))),
      Dirs |-> (projectsDir :> 1), LastFullWalk |-> 4 ]

OlderBin == Marshal(OlderSnapshot, << fileTop >>)

BadMagicBin == BinFile(<< 0, 0, 0, 0 >> \o PutUint32(CacheVersion), TRUE,
                       Encode(OlderSnapshot, << fileTop >>))

\* A cache.json written by the version of the program that kept a JSON cache
\* (no manifest), in its format version 1 and as format version 2.
LegacyJson(version, c) ==
    JsonFile(TRUE, [ Version |-> version, Timezone |-> c.Timezone,
                     Files |-> c.Files, Dirs |-> EmptyMap,
                     LastFullWalk |-> ZeroTime ])

InitCodec ==
    /\ tz = "UTC"
    /\ now = 10
    /\ fsFiles = CodecFileSystem
    /\ fsDirs = [ d \in DirPaths |-> [ present |-> TRUE, mtime |-> 1 ] ]
    /\ \E b \in { Absent, OlderBin, BadMagicBin },
          l \in { Absent, LegacyJson(1, OlderSnapshot) },
          t \in { Absent, Partial } :
            disk = (cachePath :> b) @@ (legacyPath :> l) @@ ("cache.bin.tmp" :> t)
    /\ pc = "save"
    /\ run = 1
    /\ flags = NoFlags
    /\ cache \in CodecSnapshots
    /\ cacheValid = TRUE
    /\ loaded = [ nil |-> FALSE, cache |-> cache ]
    /\ files = << >>
    /\ dStats = ZeroDStats
    /\ allEntries = EmptyMap
    /\ stats = ZeroStats
    /\ dirty = TRUE
    /\ existingFiles = {}
    /\ misses = << >>
    /\ results = << >>
    /\ task = << >>
    /\ sem = 0
    /\ idx = 1
    /\ saveBuf = Absent
    /\ saveErr = "none"
    /\ opened = {}
    /\ pre = EmptyDisk
    /\ atLoad = disk
    /\ lastOut = NoOutput
    /\ quiet = TRUE
    /\ console = NoPrint
    /\ call = NoCall

NextCodec == Save \/ Restart \/ Load

SpecCodec == InitCodec /\ [][NextCodec]_vars

-----------------------------------------------------------------------------
(* Claims about the codec and the cache write (checked under SpecCodec).   *)

\* The run loaded, with no flag, the cache file that the previous run wrote
\* with success and that nothing has touched since.
LoadedWhatWasSaved ==
    /\ pc = "discover"
    /\ lastOut.done /\ lastOut.saveErr = "ok" /\ lastOut.quiet
    /\ flags = NoFlags

\* C7: loadCache applied to the bytes written by saveCache gives back the
\* snapshot: the timezone label, the file paths with their (modTime, size)
\* and records, the directory manifest and the last-full-walk timestamp;
\* also for the snapshot with no file and no directory.
C7_RoundTrip ==
    LoadedWhatWasSaved =>
        /\ ~loaded.nil
        /\ loaded.cache.Timezone = lastOut.snap.Timezone
        /\ loaded.cache.Files = lastOut.snap.Files
        /\ loaded.cache.Dirs = lastOut.snap.Dirs
        /\ loaded.cache.LastFullWalk = lastOut.snap.LastFullWalk

\* A snapshot of three files read back, one of them with two records, with a
\* manifest; its records repeat dates and models.
C7_Witness ==
    /\ LoadedWhatWasSaved
    /\ Cardinality(DOMAIN lastOut.snap.Files) = 3
    /\ \E f \in DOMAIN loaded.cache.Files :
           Len(loaded.cache.Files[f].Entries) = 2
    /\ DOMAIN loaded.cache.Dirs # {}
    /\ loaded.cache.Timezone = "PST"

\* The empty snapshot read back.
C7_WitnessEmpty ==
    /\ LoadedWhatWasSaved
    /\ ~loaded.nil
    /\ DOMAIN lastOut.snap.Files = {}
    /\ DOMAIN lastOut.snap.Dirs = {}

\* saveCache has been entered and has recorded the directory it found.
InSave ==
    \/ pc \in { "save_open", "save_write", "save_remove", "save_rename" }
    \/ pc = "exit" /\ saveErr # "none"

\* C9: the legacy file is deleted only after the new-format file is in place:
\* in no state of a save is cache.json removed while cache.bin has not been
\* written by this save.
C9_LegacyRemovedLast ==
    (InSave /\ pre[legacyPath] # Absent /\ disk[legacyPath] = Absent) =>
        (saveErr = "ok" /\ disk[cachePath] = saveBuf)

\* C10: in every state of a save, whatever step fails and wherever the
\* process stops, the file at the cache path holds the complete previous
\* contents (or is absent, as before) or the complete new contents.
C10_CrashSafe ==
    InSave =>
        /\ disk[cachePath] # Partial
        /\ disk[cachePath] = pre[cachePath] \/ disk[cachePath] = saveBuf
        /\ saveErr = "ok" => disk[cachePath] = saveBuf
        /\ saveErr \in { "mkdir", "write", "rename" } =>
               disk[cachePath] = pre[cachePath]

\* The write of the temporary file failed part-way: the temporary file is
\* partial and the cache path still holds the previous cache.
C10_Witness ==
    /\ pc = "exit"
    /\ saveErr = "write"
    /\ disk[tmpPath] = Partial
    /\ pre[cachePath] = OlderBin
    /\ disk[cachePath] = OlderBin

-----------------------------------------------------------------------------
(* Discovery: fullWalkJSONL, walkSubtree, minimalRoots, findJSONLFiles.    *)

fullWalkInterval == 5

\* path is root or lies below it.
Under(root, path) == path = root \/ HasPrefix(path, root \o Separator)

\* filepath.WalkDir visits a directory before its entries and the entries in
\* the order of their names: the order of the paths with the separator taken
\* as the lowest byte.
WalkKey(path) == [ i \in DOMAIN path |-> IF << path[i] >> = Separator THEN 0 ELSE path[i] ]

WalkSort(S) ==
    CHOOSE s \in Orderings(S) :
        \A i, j \in DOMAIN s : i < j => StrLess(WalkKey(s[i]), WalkKey(s[j]))

\* fullWalkJSONL and walkSubtree (the same code): the *.jsonl entries below
\* root in walk order, and the modification time of every directory.
Walk(root) ==
    IF root \notin DirPaths \/ ~fsDirs[root].present
    THEN [ files |-> << >>, dirs |-> EmptyMap ]
    ELSE [ files |-> WalkSort({ f \in FilePaths :
                                  /\ fsFiles[f].present
                                  /\ Under(root, f)
                                  /\ HasSuffix(f, jsonlSuffix) }),
           dirs  |-> [ d \in { x \in DirPaths : fsDirs[x].present /\ Under(root, x) }
                         |-> fsDirs[d].mtime ] ]

\* filepath.Dir of a path that holds a separator.
Dir(path) ==
    SubSeq(path, 1, Max({ i \in DOMAIN path : << path[i] >> = Separator }) - 1)

\* Lines 206-218 with "strings.HasPrefix(p, root)" for the test.
RECURSIVE minimalRootsLoopStringPrefix(_, _, _)
minimalRootsLoopStringPrefix(paths, i, roots) ==
    IF i > Len(paths) THEN roots
    ELSE LET isChild == \E r \in Range(roots) : HasPrefix(paths[i], r)
         IN  minimalRootsLoopStringPrefix(paths, i + 1,
                              IF isChild THEN roots ELSE Append(roots, paths[i]))

RECURSIVE minimalRootsLoop(_, _, _)
minimalRootsLoop(paths, i, roots) ==
    IF i > Len(paths) THEN roots
    ELSE LET isChild == \E r \in Range(roots) : HasPrefix(paths[i], r \o Separator)
         IN  minimalRootsLoop(paths, i + 1,
                              IF isChild THEN roots ELSE Append(roots, paths[i]))

minimalRootsAlwaysRoot(dirs) == << projectsDir >>
minimalRoots(dirs) == minimalRootsLoop(SortStrings(dirs), 1, << >>)

\* Lines 118-120 without the safety interval.
needsFullWalkOnEmptyManifest(c, t) == DOMAIN c.Dirs = {}

\* Lines 118-120.
needsFullWalkAtInterval(c, t) ==
    \/ DOMAIN c.Dirs = {}
    \/ t - c.LastFullWalk >= fullWalkInterval
needsFullWalk(c, t) ==
    \/ DOMAIN c.Dirs = {}
    \/ t - c.LastFullWalk > fullWalkInterval

\* Lines 157-164: the cached files whose parent directory is unchanged.
filesFromCacheAll(c, unchanged) == DOMAIN c.Files
filesFromCache(c, unchanged) == { f \in DOMAIN c.Files : Dir(f) \in unchanged }

\* Lines 180-185: "if _, err := os.Stat(dirPath); err != nil
\* { delete(cache.Dirs, dirPath) }" over the manifest.
pruneDirsNone(dirs) == dirs
pruneDirs(dirs) == [ d \in { x \in DOMAIN dirs : fsDirs[x].present } |-> dirs[d] ]

\* findJSONLFiles(projectsDir, cache): the file list, the stats and the
\* cache with its manifest updated.
findJSONLFiles(c, t) ==
    IF needsFullWalk(c, t)
    THEN LET w == Walk(projectsDir)
         IN  [ files |-> w.files,
               cache |-> [c EXCEPT !.Dirs = w.dirs, !.LastFullWalk = t],
               stats |-> [ZeroDStats EXCEPT !.fullWalk = TRUE,
                                             !.dirsChecked = Cardinality(DOMAIN w.dirs)] ]
    ELSE LET known     == DOMAIN c.Dirs
             changed   == { d \in known :
                              ~fsDirs[d].present \/ fsDirs[d].mtime # c.Dirs[d] }
             unchanged == known \ changed
             fromCache == filesFromCache(c, unchanged)
             roots     == minimalRoots(changed)
             subFiles  == UNION { Range(Walk(r).files) : r \in Range(roots) }
             subDirs   == UNION { DOMAIN Walk(r).dirs : r \in Range(roots) }
             dirs1     == [ d \in known \cup subDirs |->
                              IF d \in subDirs THEN fsDirs[d].mtime ELSE c.Dirs[d] ]
             dirs2     == pruneDirs(dirs1)
         IN  [ files |-> SortStrings(fromCache \cup subFiles),
               cache |-> [c EXCEPT !.Dirs = dirs2],
               stats |-> [ dirsChecked |-> Cardinality(known),
                           dirsChanged |-> Cardinality(changed),
                           subtreesWalked |-> Len(roots),
                           filesFromCache |-> Cardinality(fromCache),
                           fullWalk |-> FALSE ] ]

\* Line 817.
Discover ==
    /\ pc = "discover"
    /\ LET r == findJSONLFiles(cache, now)
       IN  /\ files' = r.files
           /\ cache' = r.cache
           /\ dStats' = r.stats
    /\ pc' = "process"
    /\ UNCHANGED << envVars, diskVars, run, flags, loaded, cacheValid,
                    procVars, saveVars, obsVars >>

\* "if dirty || dStats.fullWalk || dStats.dirsChanged > 0"
ShouldSaveAlways(isDirty, ds) == TRUE
ShouldSave(isDirty, ds) == isDirty \/ ds.fullWalk \/ ds.dirsChanged > 0

\* Lines 825-854: aggregate, print, and save the cache if anything changed.
Output ==
    /\ pc = "output"
    /\ console' = [console EXCEPT !.printed = TRUE, !.table = allEntries]
    /\ UNCHANGED call
    /\ pc' = IF ShouldSave(dirty, dStats) THEN "save" ELSE "exit"
    /\ UNCHANGED << envVars, diskVars, mainVars, cache, procVars, saveVars,
                    atLoad, lastOut, quiet >>

\* One run of main().
Main == Load \/ Discover \/ Process \/ Output \/ Save

-----------------------------------------------------------------------------
(* The environment between two runs.                                       *)

LineC == Line("T1", "m4", "r2", "haiku", 3, 1, 0, 0)

\* A log file is appended to: its size and modification time change, the
\* modification time of its directory does not.
EditFile(f) ==
    /\ pc = "exit"
    /\ run < MaxRuns
    /\ quiet
    /\ fsFiles[f].present /\ fsFiles[f].readable
    /\ fsFiles' = [fsFiles EXCEPT ![f].lines = Append(@, LineC),
                                  ![f].mtime = @ + 1]
    /\ quiet' = FALSE
    /\ UNCHANGED << fsDirs, tz, now, diskVars, mainVars, pc, cache, procVars,
                    saveVars, atLoad, lastOut, console, call >>

\* The local timezone of the machine changes.
ChangeZone ==
    /\ pc = "exit"
    /\ run < MaxRuns
    /\ quiet
    /\ tz' \in Zones \ { tz }
    /\ quiet' = FALSE
    /\ UNCHANGED << fsFiles, fsDirs, now, diskVars, mainVars, pc, cache,
                    procVars, saveVars, atLoad, lastOut, console, call >>

Environment == (\E f \in FilePaths : EditFile(f)) \/ ChangeZone

-----------------------------------------------------------------------------
(* Spec: consecutive runs of the program, the first one with no cache.     *)
(* SpecRun: one run, over any contents of the cache directory.             *)

RunFileSystems ==
    { [ p \in FilePaths |->
          IF p = fileTop THEN Regular(2, Content1) ELSE IF p = fileB THEN b ELSE c ] :
        b \in { Regular(2, Content2), Regular(2, Content3) },
        c \in { Dangling, Regular(2, Content1) } }

AllDirs == [ d \in DirPaths |-> [ present |-> TRUE, mtime |-> 1 ] ]

InitLocals ==
    /\ pc = "load"
    /\ run = 1
    /\ flags = NoFlags
    /\ loaded = NilCache
    /\ cache = FreshCache(tz)
    /\ cacheValid = FALSE
    /\ files = << >>
    /\ dStats = ZeroDStats
    /\ allEntries = EmptyMap
    /\ stats = ZeroStats
    /\ dirty = FALSE
    /\ existingFiles = {}
    /\ misses = << >>
    /\ results = << >>
    /\ task = << >>
    /\ sem = 0
    /\ idx = 1
    /\ saveBuf = Absent
    /\ saveErr = "none"
    /\ opened = {}
    /\ pre = EmptyDisk
    /\ atLoad = EmptyDisk
    /\ lastOut = NoOutput
    /\ quiet = TRUE
    /\ console = NoPrint
    /\ call = NoCall

Init ==
    /\ tz = "UTC"
    /\ now = 10
    /\ fsFiles \in { fs \in RunFileSystems : fs[fileB] = Regular(2, Content2) }
    /\ fsDirs = AllDirs
    /\ disk = EmptyDisk
    /\ InitLocals

Next == Main \/ Restart \/ Environment

Spec == Init /\ [][Next]_vars

\* The snapshot an earlier run left for the files fs: written in zone z, its
\* last full walk at time t, the entries of the files in stale out of date.
RunSnapshot(fs, z, t, stale) ==
    [ Version |-> CacheVersion, Timezone |-> z,
      Files |-> [ f \in { x \in FilePaths : fs[x].statOK } |->
                    IF f \in stale THEN StaleEntry(fs, f, z)
                                   ELSE FreshEntry(fs, f, z) ],
      Dirs |-> [ d \in DirPaths |-> 1 ],
      LastFullWalk |-> t ]

RunSnapshots(fs) ==
    { RunSnapshot(fs, "UTC", 9, {}), RunSnapshot(fs, "UTC", 9, { fileB }),
      RunSnapshot(fs, "PST", 9, {}), RunSnapshot(fs, "UTC", 4, {}),
      [RunSnapshot(fs, "UTC", 9, {}) EXCEPT !.Dirs[dirA] = 0],
      RunSnapshot(fs, "UTC", 5, {}),
      [RunSnapshot(fs, "UTC", 9, {}) EXCEPT !.Dirs = (projectsDir :> 1)],
      [RunSnapshot(fs, "UTC", 9, {}) EXCEPT
          !.Dirs[dirA] = 0,
          !.Files = [ f \in (DOMAIN @) \ { fileB } |-> @[f] ]] }

GoodBin(c) == Marshal(c, SortStrings(DOMAIN c.Files))

\* Files at the cache path that loadCache rejects.
BadMagic(c)   == [GoodBin(c) EXCEPT !.header = << 0, 0, 0, 0 >> \o PutUint32(CacheVersion)]
BadVersion(c) == [GoodBin(c) EXCEPT !.header = cacheMagic \o PutUint32(CacheVersion + 1)]
BadGob(c)     == [GoodBin(c) EXCEPT !.gob = FALSE, !.enc = NoEncoded]
ShortBin      == BinFile(<< 67, 67 >>, FALSE, NoEncoded)

RunDisks(c) ==
    { (cachePath :> b) @@ (legacyPath :> l) @@ ("cache.bin.tmp" :> Absent) :
        << b, l >> \in
          { << Absent, Absent >>,
            << GoodBin(c), Absent >>,
            << Absent, JsonFile(TRUE, c) >>,
            << Absent, LegacyJson(1, c) >>,
            << Absent, LegacyJson(CacheVersion, c) >>,
            << Absent, JsonFile(FALSE, c) >>,
            << BadMagic(c), JsonFile(TRUE, c) >>,
            << BadMagic(c), Absent >>,
            << BadVersion(c), JsonFile(TRUE, c) >>,
            << BadGob(c), JsonFile(TRUE, c) >>,
            << ShortBin, JsonFile(TRUE, c) >> } }

\* The tree as the earlier run left it, or after "rm -r" of the directory d
\* since then: d and everything under it gone, the parent of d modified.
RemoveAll(fs, d) ==
    [ files |-> [ f \in FilePaths |-> IF Under(d, f) THEN NoFile ELSE fs[f] ],
      dirs  |-> [ x \in DirPaths |->
                    IF Under(d, x) THEN [ present |-> FALSE, mtime |-> 0 ]
                    ELSE IF x = Dir(d) THEN [ present |-> TRUE, mtime |-> 2 ]
                    ELSE AllDirs[x] ] ]

RunTrees(fs) ==
    { [ files |-> fs, dirs |-> AllDirs ], RemoveAll(fs, dirA), RemoveAll(fs, projectsDir) }

InitRun ==
    /\ tz = "UTC"
    /\ now = 10
    /\ \E fs \in RunFileSystems :
         /\ \E t \in RunTrees(fs) : fsFiles = t.files /\ fsDirs = t.dirs
         /\ \E c \in RunSnapshots(fs) : disk \in RunDisks(c)
    /\ InitLocals

SpecRun == InitRun /\ [][Main]_vars

-----------------------------------------------------------------------------
(* Claims about whole runs.                                                *)

AfterDiscover == pc \notin { "load", "discover" }

AfterProcess ==
    pc \in { "output", "save", "save_open", "save_write", "save_remove",
             "save_rename", "exit" }

StatOKFiles == { f \in FilePaths : ~Stat(f).err }

\* The second of two complete runs, nothing having changed since the first
\* run started, has reconciled its files.
SecondQuietRun ==
    /\ run = 2
    /\ AfterProcess
    /\ flags = NoFlags
    /\ lastOut.done /\ lastOut.quiet /\ lastOut.saveErr = "ok"
    /\ quiet

\* C4: of two consecutive complete runs with no file system change between
\* or during them, the second returns the record set of the first and
\* reports zero cache misses.
C4_Idempotent ==
    SecondQuietRun =>
        /\ allEntries = lastOut.entries
        /\ stats.misses = 0

\* The part of C4 that does not depend on which of two records of equal
\* token sum is kept: zero misses, the same keys, the same token sums.
C4_SameKeysAndSums ==
    SecondQuietRun =>
        /\ stats.misses = 0
        /\ DOMAIN allEntries = DOMAIN lastOut.entries
        /\ \A k \in DOMAIN allEntries :
               entryTotalTokens(allEntries[k]) =
                   entryTotalTokens(lastOut.entries[k])

C4_SameKeysWitness ==
    /\ SecondQuietRun
    /\ pc = "exit"
    /\ stats.hits = 3
    /\ ~dStats.fullWalk

\* The snapshot loadCache returned was written by another format version or
\* in another timezone.
SnapshotMismatch ==
    /\ pc # "load"
    /\ ~loaded.nil
    /\ loaded.cache.Version # CacheVersion \/ loaded.cache.Timezone # tz

\* C6: when the format version or the timezone label of the loaded snapshot
\* differs from the current run's, the snapshot is discarded: the run starts
\* from an empty cache, performs a full walk, reports zero hits and parses
\* every file it can stat.
C6_MismatchRebuilds ==
    SnapshotMismatch =>
        /\ ~cacheValid
        /\ pc = "discover" => cache = FreshCache(tz)
        /\ AfterDiscover => dStats.fullWalk
        /\ stats.hits = 0
        /\ AfterProcess => /\ stats.misses = Cardinality(StatOKFiles)
                           /\ opened = StatOKFiles

\* A snapshot of another timezone whose entries all match the files' current
\* (modTime, size), and whose last full walk is recent: nothing changed, and
\* the run rebuilt everything.
C6_Witness ==
    /\ SnapshotMismatch
    /\ pc = "exit"
    /\ loaded.cache.Version = CacheVersion
    /\ loaded.cache.Timezone = "PST"
    /\ now - loaded.cache.LastFullWalk <= fullWalkInterval
    /\ \A f \in StatOKFiles :
           /\ f \in DOMAIN loaded.cache.Files
           /\ loaded.cache.Files[f].ModTime = Stat(f).mtime
           /\ loaded.cache.Files[f].Size = Stat(f).size
    /\ Cardinality(StatOKFiles) = 3
    /\ stats.misses = 3

\* A snapshot of another format version, read from the legacy file.
C6_WitnessVersion ==
    /\ SnapshotMismatch
    /\ pc = "exit"
    /\ loaded.cache.Version # CacheVersion
    /\ loaded.cache.Timezone = tz
    /\ stats.misses >= 2

\* The file found at the cache path by a run that reads its cache.
BinAtLoad == atLoad[cachePath]

ReadsCache == pc # "load" /\ flags = NoFlags /\ BinAtLoad.kind = "bin"

WrongMagic ==
    ReadsCache /\ Len(BinAtLoad.header) >= 8
               /\ SubSeq(BinAtLoad.header, 1, 4) # cacheMagic

ShortHeader == ReadsCache /\ Len(BinAtLoad.header) < 8

WrongVersion ==
    ReadsCache /\ Len(BinAtLoad.header) >= 8
               /\ SubSeq(BinAtLoad.header, 1, 4) = cacheMagic
               /\ Uint32(SubSeq(BinAtLoad.header, 5, 8)) # CacheVersion

Undecodable ==
    ReadsCache /\ Len(BinAtLoad.header) >= 8
               /\ SubSeq(BinAtLoad.header, 1, 4) = cacheMagic
               /\ Uint32(SubSeq(BinAtLoad.header, 5, 8)) = CacheVersion
               /\ ~BinAtLoad.gob

FullRebuild ==
    /\ ~cacheValid
    /\ pc = "discover" => cache = FreshCache(tz)
    /\ AfterDiscover => dStats.fullWalk
    /\ stats.hits = 0
    /\ AfterProcess => opened = StatOKFiles

C8_WitnessLegacy ==
    /\ WrongMagic
    /\ pc = "exit"
    /\ cacheValid
    /\ stats.hits = 3

\* An undecodable payload.
C8_WitnessUndecodable ==
    /\ Undecodable
    /\ pc = "exit"
    /\ stats.hits = 0
    /\ stats.misses = 3

-----------------------------------------------------------------------------
(* Claims about the end of a run: output, dirty flag, cache write.         *)

\* saveCache has returned an error.
SaveFailed == pc = "exit" /\ saveErr \in { "mkdir", "write", "rename" }

\* C11: a failure of the cache write does not alter the run's output (the
\* reconciled records have been handed to aggregation and printed) and is
\* surfaced to the user as a warning.
C11_SaveFailureWarned ==
    SaveFailed =>
        /\ console.printed
        /\ console.table = allEntries
        /\ console.stderr # << >>

\* The part of C11 that holds: from the moment saveCache is entered, whatever
\* it returns, the table of the reconciled records has been printed.
C11_OutputUnaffected ==
    InSave => (console.printed /\ console.table = allEntries)

C11_OutputUnaffectedWitness ==
    SaveFailed /\ saveErr = "rename" /\ DOMAIN console.table # {}

\* The table has been printed: the run is saving, or has ended.
AfterOutput ==
    pc \in { "save", "save_open", "save_write", "save_remove", "save_rename",
             "exit" }

\* main has called saveCache.
SaveCalled == AfterOutput /\ ~(pc = "exit" /\ saveErr = "none")

\* The directory manifest the run started from.
ManifestAtLoad == IF cacheValid THEN loaded.cache.Dirs ELSE EmptyMap

\* C14 as stated: the cache file is written only when the dirty flag is set
\* or the directory manifest changed during discovery; a run with nothing
\* dirty and the manifest of the loaded snapshot performs no write.
C14_WriteOnlyIfDirtyOrManifestChanged ==
    /\ SaveCalled => (dirty \/ cache.Dirs # ManifestAtLoad)
    /\ (pc = "exit" /\ ~dirty /\ cache.Dirs = ManifestAtLoad) =>
           (saveErr = "none" /\ disk = atLoad)

\* C14 (amended): the cache file is written exactly when the dirty flag is
\* set, discovery did a full walk, or discovery found a changed directory.
\* A changed manifest implies one of the last two; a run with nothing dirty,
\* a partial walk and no changed directory keeps the loaded manifest and
\* last-full-walk time, performs no write and leaves the cache directory as
\* it found it.
C14_WriteIffDirtyOrWalked ==
    /\ AfterOutput =>
         /\ SaveCalled <=> (dirty \/ dStats.fullWalk \/ dStats.dirsChanged > 0)
         /\ cache.Dirs # ManifestAtLoad =>
                (dStats.fullWalk \/ dStats.dirsChanged > 0)
    /\ (pc = "exit" /\ ~dirty /\ ~dStats.fullWalk /\ dStats.dirsChanged = 0) =>
         /\ saveErr = "none"
         /\ disk = atLoad
         /\ cache.Dirs = ManifestAtLoad
         /\ cache.LastFullWalk = loaded.cache.LastFullWalk

\* A fully warm run: every file a hit, a partial walk, nothing written.
C14_Witness ==
    /\ pc = "exit"
    /\ cacheValid /\ ~dirty /\ ~dStats.fullWalk /\ dStats.dirsChanged = 0
    /\ stats.hits >= 2
    /\ saveErr = "none"
    /\ atLoad[cachePath].kind = "bin"
    /\ disk = atLoad

\* Nothing dirty and the loaded manifest unchanged, and the cache rewritten:
\* the safety interval had elapsed and the run did a full walk.
C14_WitnessFullWalk ==
    /\ pc = "exit"
    /\ cacheValid /\ ~dirty /\ dStats.fullWalk
    /\ cache.Dirs = ManifestAtLoad
    /\ saveErr = "ok"
    /\ disk # atLoad

-----------------------------------------------------------------------------
(* Claims about discovery.                                                 *)

\* The manifested directories whose stat fails or whose modification time
\* differs from the manifest's.
ChangedDirs ==
    { d \in DOMAIN CacheAtStart.Dirs :
        ~fsDirs[d].present \/ fsDirs[d].mtime # CacheAtStart.Dirs[d] }

\* C17: findJSONLFiles does a full walk iff there is no usable manifest (no
\* cache or an invalidated one, or an empty manifest) or more than the safety
\* interval has elapsed since the last full walk; otherwise it does a partial
\* walk: it stats the manifested directories and walks subtrees only where
\* one of them changed.
C17_FullWalkIff ==
    AfterDiscover =>
        /\ dStats.fullWalk <=>
              \/ ~cacheValid
              \/ DOMAIN CacheAtStart.Dirs = {}
              \/ now - CacheAtStart.LastFullWalk > fullWalkInterval
        /\ dStats.fullWalk =>
              /\ cache.LastFullWalk = now
              /\ dStats.subtreesWalked = 0
        /\ ~dStats.fullWalk =>
              /\ cache.LastFullWalk = CacheAtStart.LastFullWalk
              /\ dStats.dirsChecked = Cardinality(DOMAIN CacheAtStart.Dirs)
              /\ dStats.dirsChanged = Cardinality(ChangedDirs)
              /\ dStats.subtreesWalked <= dStats.dirsChanged
              /\ dStats.subtreesWalked = 0 <=> ChangedDirs = {}

\* A valid snapshot whose last full walk is exactly the safety interval old:
\* a partial walk.
C17_Witness ==
    /\ pc = "exit"
    /\ cacheValid
    /\ now - CacheAtStart.LastFullWalk = fullWalkInterval
    /\ ~dStats.fullWalk
    /\ dStats.dirsChecked = 2

\* A valid snapshot with a manifest, older than the safety interval: a full
\* walk.
C17_WitnessElapsed ==
    /\ pc = "exit"
    /\ cacheValid
    /\ DOMAIN CacheAtStart.Dirs # {}
    /\ now - CacheAtStart.LastFullWalk > fullWalkInterval
    /\ dStats.fullWalk

\* A partial walk that found a changed directory and walked its subtree.
C17_WitnessPartial ==
    /\ pc = "exit"
    /\ ~dStats.fullWalk
    /\ dStats.dirsChanged = 1
    /\ dStats.subtreesWalked = 1

\* Ascending in the order of sort.Strings, which also excludes duplicates.
IsSorted(seq) ==
    \A i, j \in DOMAIN seq : i < j => StrLess(seq[i], seq[j])

NoDuplicates(seq) ==
    \A i, j \in DOMAIN seq : i # j => seq[i] # seq[j]

\* C18: the file sequence returned by discovery is in ascending path-string
\* order and holds no path twice, after a full walk as after a partial walk.
C18_SortedNoDuplicates ==
    AfterDiscover => (IsSorted(files) /\ NoDuplicates(files))

\* The part of C18 that holds: no path twice on either path, ascending order
\* after a partial walk, and the order of filepath.WalkDir after a full walk.
C18_SortedOnPartialWalk ==
    AfterDiscover =>
        /\ NoDuplicates(files)
        /\ ~dStats.fullWalk => IsSorted(files)
        /\ dStats.fullWalk =>
              \A i, j \in DOMAIN files :
                 i < j => StrLess(WalkKey(files[i]), WalkKey(files[j]))

C18_PartialWalkWitness ==
    /\ AfterDiscover
    /\ ~dStats.fullWalk
    /\ dStats.subtreesWalked = 1
    /\ Len(files) = 3

-----------------------------------------------------------------------------
(* SpecScenario: processWithCacheLoaded on an unchanged file A and a        *)
(* changed file B that hold the same request with 100 and 150 tokens.       *)

\* The ways the counters of the two records add up to 100 and to 150.
Splits100 == { << 100, 0, 0, 0 >>, << 40, 30, 20, 10 >>, << 0, 100, 0, 0 >> }
Splits150 == { << 150, 0, 0, 0 >>, << 50, 50, 25, 25 >>, << 0, 100, 50, 0 >> }

ScenarioLine(ts, model, c) == Line(ts, "K1", "X", model, c[1], c[2], c[3], c[4])

InitScenario ==
    /\ tz = "UTC"
    /\ now = 10
    /\ \E a \in Splits100, b \in Splits150 :
          fsFiles = [ p \in FilePaths |->
                        IF p = fileTop
                        THEN Regular(2, << ScenarioLine("T0", "opus", a) >>)
                        ELSE IF p = fileB
                        THEN Regular(3, << BadLine, ScenarioLine("T1", "sonnet", b) >>)
                        ELSE NoFile ]
    /\ fsDirs = [ d \in DirPaths |-> [ present |-> TRUE, mtime |-> 1 ] ]
    /\ disk = EmptyDisk
    /\ pc = "process"
    /\ run = 1
    /\ flags = NoFlags
    /\ cacheValid = TRUE
    /\ \E old \in { {}, { FileCacheEntry(2, 2, ParsedSlice(Content2, tz)) },
                    { FileCacheEntry(3, 1, ParsedSlice(Content2, tz)) } } :
          cache = [ FreshCache(tz) EXCEPT !.Files =
                      [ p \in { fileTop } \cup { fileB : e \in old } |->
                          IF p = fileTop THEN FreshEntry(fsFiles, fileTop, tz)
                          ELSE CHOOSE e \in old : TRUE ] ]
    /\ loaded = [ nil |-> FALSE, cache |-> cache ]
    /\ files \in Orderings({ fileTop, fileB })
    /\ dStats = ZeroDStats
    /\ allEntries = EmptyMap
    /\ stats = ZeroStats
    /\ dirty = FALSE
    /\ existingFiles = {}
    /\ misses = << >>
    /\ results = << >>
    /\ task = << >>
    /\ sem = 0
    /\ idx = 1
    /\ saveBuf = Absent
    /\ saveErr = "none"
    /\ opened = {}
    /\ pre = EmptyDisk
    /\ atLoad = EmptyDisk
    /\ lastOut = NoOutput
    /\ quiet = TRUE
    /\ console = NoPrint
    /\ call = NoCall

SpecScenario == InitScenario /\ [][Process]_vars

\* C19: with a valid cache, an unchanged file A holding key K with 100
\* tokens and a cache miss B whose parse yields K with 150 tokens,
\* reconciliation returns exactly one record for K, B's record of 150
\* tokens, with one hit, one miss and one conflict.
C19_Scenario ==
    pc = "output" =>
        /\ DOMAIN allEntries = { "K1:X" }
        /\ entryTotalTokens(allEntries["K1:X"]) = 150
        /\ allEntries["K1:X"] \in Range(ParsedSlice(fsFiles[fileB].lines, tz))
        /\ allEntries["K1:X"].Model = "sonnet"
        /\ stats.hits = 1
        /\ stats.misses = 1
        /\ stats.conflicts = 1
        /\ stats.totalNew = 1

\* The scenario has run with B listed before A, B's record of 150 tokens
\* having fewer input tokens than A's of 100.
C19_Witness ==
    /\ pc = "output"
    /\ files = << fileB, fileTop >>
    /\ HitPaths = { fileTop }
    /\ MissPaths = { fileB }
    /\ entryTotalTokens(cache.Files[fileTop].Entries[1]) = 100
    /\ cache.Files[fileTop].Entries[1].InputTokens = 100
    /\ allEntries["K1:X"].InputTokens = 0

\* A warm run: a valid snapshot with a manifest, its last full walk within
\* the safety interval, and every manifested directory present with the
\* modification time the manifest holds.
WarmUnchanged ==
    /\ AfterDiscover
    /\ cacheValid
    /\ DOMAIN CacheAtStart.Dirs # {}
    /\ now - CacheAtStart.LastFullWalk <= fullWalkInterval
    /\ ChangedDirs = {}

\* The cached file paths whose parent directory is in the manifest.
CachedUnderManifest ==
    { f \in DOMAIN CacheAtStart.Files : Dir(f) \in DOMAIN CacheAtStart.Dirs }

\* C20: on a warm run where no manifested directory has changed or is
\* missing, discovery does no full walk and no subtree walk, and returns
\* exactly the cached file paths whose parent directory is in the manifest.
C20_WarmNoWalk ==
    WarmUnchanged =>
        /\ ~dStats.fullWalk
        /\ dStats.subtreesWalked = 0
        /\ dStats.dirsChanged = 0
        /\ Range(files) = CachedUnderManifest
        /\ Len(files) = Cardinality(CachedUnderManifest)
        /\ dStats.filesFromCache = Cardinality(CachedUnderManifest)

\* Three cached files under two manifested directories, all returned.
C20_Witness ==
    /\ WarmUnchanged
    /\ pc = "exit"
    /\ Cardinality(DOMAIN CacheAtStart.Dirs) = 2
    /\ Len(files) = 3

\* A cached file whose parent directory is not in the manifest is left out.
C20_WitnessLeftOut ==
    /\ WarmUnchanged
    /\ pc = "exit"
    /\ fileB \in DOMAIN CacheAtStart.Files
    /\ files = << fileTop >>

-----------------------------------------------------------------------------
(* The manifest after discovery.                                           *)

\* The manifested directories that are no longer on disk.
RemovedDirs == { d \in DOMAIN ManifestAtLoad : ~fsDirs[d].present }

\* C21: when findJSONLFiles has returned, the manifest holds no directory
\* that is absent from disk: a manifested directory that no longer exists is
\* gone from it, with every manifested directory below it, before the
\* snapshot can be saved.
C21_NoAbsentDirInManifest ==
    AfterDiscover =>
        /\ \A d \in DOMAIN cache.Dirs : d \in DirPaths /\ fsDirs[d].present
        /\ \A d \in RemovedDirs :
              \A x \in DOMAIN ManifestAtLoad :
                  Under(d, x) => x \notin DOMAIN cache.Dirs

\* A partial walk has dropped a removed directory and the manifested
\* directory below it.
C21_Witness ==
    /\ AfterDiscover
    /\ ~dStats.fullWalk
    /\ RemovedDirs = { projectsDir, dirA }
    /\ cache.Dirs = EmptyMap

\* A partial walk has dropped one removed directory and kept its parent.
C21_WitnessSubtree ==
    /\ AfterDiscover
    /\ ~dStats.fullWalk
    /\ RemovedDirs = { dirA }
    /\ DOMAIN cache.Dirs = { projectsDir }
    /\ pc = "exit"

-----------------------------------------------------------------------------
(* --no-cache and --clear-cache.                                           *)

FlagRun == pc # "load" /\ (flags.noCache \/ flags.clearCache)

\* What loadCache would have made of the cache directory the run found.
Bypassed == loadCache(atLoad[cachePath], atLoad[legacyPath])

\* C22: with --no-cache or --clear-cache no persisted snapshot is used: there
\* is a full walk, every file os.Stat describes is parsed again with no hit,
\* and saveCache is still called with the fresh cache at the end of the run;
\* --clear-cache also deletes cache.bin and cache.json before anything is
\* loaded, --no-cache leaves them in place.
C22_FlagsBypassSnapshot ==
    /\ FlagRun =>
          /\ loaded = NilCache
          /\ FullRebuild
          /\ AfterProcess => DOMAIN cache.Files = StatOKFiles
          /\ AfterOutput => SaveCalled
          /\ (pc = "exit" /\ saveErr = "ok") =>
                /\ disk[cachePath].kind = "bin"
                /\ loadCache(disk[cachePath], disk[legacyPath]).cache = cache
    /\ (pc = "discover" /\ flags.clearCache) =>
          disk[cachePath] = Absent /\ disk[legacyPath] = Absent
    /\ (pc # "load" /\ flags.clearCache) => disk[legacyPath] = Absent
    /\ (pc = "discover" /\ flags.noCache) => disk = atLoad

\* A run with --no-cache that found a snapshot it could have used, parsed
\* three files again and wrote the fresh cache.
C22_Witness ==
    /\ FlagRun
    /\ flags.noCache
    /\ IsValid(Bypassed, tz)
    /\ now - Bypassed.cache.LastFullWalk <= fullWalkInterval
    /\ DOMAIN Bypassed.cache.Dirs # {}
    /\ Cardinality(opened) = 3
    /\ pc = "exit"
    /\ saveErr = "ok"

\* A run with --clear-cache that found both cache files.
C22_WitnessClear ==
    /\ FlagRun
    /\ flags.clearCache
    /\ atLoad[cachePath] # Absent
    /\ atLoad[legacyPath] # Absent
    /\ IsValid(Bypassed, tz)
    /\ pc = "exit"
    /\ saveErr = "ok"

-----------------------------------------------------------------------------
(* The legacy JSON cache.                                                  *)

LegacyAtLoad == atLoad[legacyPath]

\* The run found no cache.bin and a cache.json of the current version and
\* the local timezone.
LegacyUsable ==
    /\ pc # "load"
    /\ flags = NoFlags
    /\ atLoad[cachePath] = Absent
    /\ LegacyAtLoad.kind = "json"
    /\ LegacyAtLoad.ok
    /\ LegacyAtLoad.value.Version = CacheVersion
    /\ LegacyAtLoad.value.Timezone = tz

\* The discovered files whose (modTime, size) are those the legacy file holds.
LegacyHits ==
    { f \in Range(files) :
        /\ f \in DOMAIN LegacyAtLoad.value.Files
        /\ ~Stat(f).err
        /\ LegacyAtLoad.value.Files[f].ModTime = Stat(f).mtime
        /\ LegacyAtLoad.value.Files[f].Size = Stat(f).size }

\* C23: with no cache.bin and a cache.json of matching version and timezone,
\* the legacy contents are the snapshot of the run: the files whose
\* (modTime, size) match are hits and are not parsed again.
C23_LegacyUpgraded ==
    LegacyUsable =>
        /\ cacheValid
        /\ ~loaded.nil
        /\ loaded.cache.Files = LegacyAtLoad.value.Files
        /\ loaded.cache.Dirs = LegacyAtLoad.value.Dirs
        /\ loaded.cache.LastFullWalk = LegacyAtLoad.value.LastFullWalk
        /\ AfterProcess =>
              /\ opened \cap LegacyHits = {}
              /\ stats.hits >= Cardinality(LegacyHits)
              /\ \A f \in LegacyHits :
                    cache.Files[f].Entries = LegacyAtLoad.value.Files[f].Entries

\* A legacy file with no manifest served two hits while a third file, out
\* of date in it, was parsed.
C23_Witness ==
    /\ LegacyUsable
    /\ AfterProcess
    /\ DOMAIN LegacyAtLoad.value.Dirs = {}
    /\ Cardinality(LegacyHits) = 2
    /\ opened = { fileB }

-----------------------------------------------------------------------------
(* SpecRoots: minimalRoots on its own, over sets of directory paths.       *)

dirADashB  == dirA \o << 45, 98 >>                     \* "p/a-b"
dirAB      == dirA \o << 98 >>                         \* "p/ab"
dirASlashB == dirA \o Separator \o << 98 >>            \* "p/a/b"
dirADashBC == dirADashB \o Separator \o << 99 >>       \* "p/a-b/c"
dirABC     == dirASlashB \o Separator \o << 99 >>      \* "p/a/b/c"

RootNames ==
    { projectsDir, dirA, dirADashB, dirAB, dirASlashB, dirADashBC, dirABC }

\* The locals of main before it has done anything, and an empty tree.
InitIdle ==
    /\ tz = "UTC"
    /\ now = 10
    /\ fsFiles = [ f \in FilePaths |-> NoFile ]
    /\ fsDirs = AllDirs
    /\ disk = EmptyDisk
    /\ run = 1
    /\ flags = NoFlags
    /\ loaded = NilCache
    /\ cache = FreshCache(tz)
    /\ cacheValid = FALSE
    /\ files = << >>
    /\ dStats = ZeroDStats
    /\ allEntries = EmptyMap
    /\ stats = ZeroStats
    /\ dirty = FALSE
    /\ existingFiles = {}
    /\ misses = << >>
    /\ results = << >>
    /\ task = << >>
    /\ sem = 0
    /\ idx = 1
    /\ saveBuf = Absent
    /\ saveErr = "none"
    /\ opened = {}
    /\ pre = EmptyDisk
    /\ atLoad = EmptyDisk
    /\ lastOut = NoOutput
    /\ quiet = TRUE
    /\ console = NoPrint

InitRoots ==
    /\ InitIdle
    /\ pc = "minimalRoots"
    /\ \E dirs \in SUBSET RootNames : call = [ arg |-> dirs, ret |-> << >> ]

\* roots := minimalRoots(changedDirs)
CallMinimalRoots ==
    /\ pc = "minimalRoots"
    /\ call' = [call EXCEPT !.ret = minimalRoots(call.arg)]
    /\ pc' = "returned"
    /\ UNCHANGED << envVars, diskVars, mainVars, cache, procVars, saveVars,
                    atLoad, lastOut, quiet, console >>

SpecRoots == InitRoots /\ [][CallMinimalRoots]_vars

\* d lies below r: r, a separator, and one or more further names.
Descends(d, r) ==
    /\ Len(d) > Len(r) + 1
    /\ SubSeq(d, 1, Len(r)) = r
    /\ << d[Len(r) + 1] >> = Separator

RootsReturned == pc = "returned" /\ call.arg \subseteq RootNames

\* C24: minimalRoots returns the minimal set of ancestors of its input: every
\* returned path is an input path, no returned path descends from another
\* returned path, and every input path is returned or descends, at a
\* separator boundary, from a returned one; a sibling that only shares a
\* string prefix ("a-b" beside "a") is not a descendant and is returned.
C24_MinimalAncestors ==
    RootsReturned =>
        LET roots == Range(call.ret)
        IN  /\ roots \subseteq call.arg
            /\ Cardinality(roots) = Len(call.ret)
            /\ \A r1, r2 \in roots : ~Descends(r1, r2)
            /\ \A d \in call.arg : d \in roots \/ \E r \in roots : Descends(d, r)
            /\ \A d \in call.arg :
                  (\A x \in call.arg : ~Descends(d, x)) => d \in roots

\* "p/a", its siblings "p/a-b" and "p/ab", and descendants of both kinds.
C24_Witness ==
    /\ RootsReturned
    /\ call.arg = { dirA, dirADashB, dirAB, dirASlashB, dirADashBC, dirABC }
    /\ call.ret = << dirA, dirADashB, dirAB >>

-----------------------------------------------------------------------------
(* SpecParse: processFileForCache on its own, over short log files.        *)

\* Lines with a timestamp and identifiers and only cache tokens, no tokens at
\* all, no request id, and neither a timestamp nor tokens.
LineCacheOnly == Line("T0", "m5", "r1", "opus", 0, 0, 0, 7)
LineNoTokens  == Line("T0", "m5", "r1", "opus", 0, 0, 0, 0)
LineNoReq     == Line("T0", "m5", "", "opus", 1, 1, 0, 0)
LineBare      == Line("", "m5", "r1", "opus", 0, 0, 0, 0)

LineChoices ==
    { BadLine, LineA1, LineA2, LineA3, LineB, LineNoTs, LineNoId, LineBadTs,
      LineCacheOnly, LineNoTokens, LineNoReq, LineBare }

MaxLines == 3

LogFiles ==
    UNION { [ 1..n -> LineChoices ] : n \in 0..MaxLines }

InitParse ==
    /\ InitIdle
    /\ pc = "processFileForCache"
    /\ \E lines \in LogFiles :
         call = [ arg |-> Regular(1, lines), ret |-> << >> ]

\* entries, fStats := processFileForCache(path)
CallProcessFile ==
    /\ pc = "processFileForCache"
    /\ call' = [call EXCEPT !.ret = processFileForCache(call.arg, tz)]
    /\ pc' = "parsed"
    /\ UNCHANGED << envVars, diskVars, mainVars, cache, procVars, saveVars,
                    atLoad, lastOut, quiet, console >>

SpecParse == InitParse /\ [][CallProcessFile]_vars

FileParsed == pc = "parsed"

ParsedLines == call.arg.lines

KeyOf(ln) == ln.ID \o ":" \o ln.RequestID

\* The cases in which C25 says a line is skipped.
StatedSkip(ln) ==
    \/ ~ln.valid
    \/ /\ ln.Timestamp = ""
       /\ ln.InputTokens = 0 /\ ln.OutputTokens = 0
       /\ ln.CacheCreationTokens = 0 /\ ln.CacheReadTokens = 0
    \/ ln.ID = "" \/ ln.RequestID = ""

\* C25 as stated: processFileForCache skips a line exactly when it fails to
\* parse, lacks both a timestamp and any token counts, or lacks the message
\* id or the request id; every other line yields a record candidate for its
\* key, so the keys of the result are the keys of the lines not skipped.
C25_SkipsExactlyStated ==
    FileParsed =>
        DOMAIN call.ret.entries =
            { KeyOf(ParsedLines[i]) :
                i \in { j \in DOMAIN ParsedLines : ~StatedSkip(ParsedLines[j]) } }

\* A line that alone in a file gives a record.
Accepted(ln) ==
    processFileForCache(Regular(1, << ln >>), tz).entries # EmptyMap

\* The record a line gives alone in a file.
RecordOf(ln) ==
    processFileForCache(Regular(1, << ln >>), tz).entries[KeyOf(ln)]

RECURSIVE WithoutBadLines(_)
WithoutBadLines(lines) ==
    IF lines = << >> THEN << >>
    ELSE IF ~Head(lines).valid THEN WithoutBadLines(Tail(lines))
    ELSE << Head(lines) >> \o WithoutBadLines(Tail(lines))

\* C26: a line that fails to parse never stops the processing of its file:
\* every line is read, every line after a bad one that gives a record on its
\* own still has its key in the result, and the records are those of the
\* file without its bad lines.
C26_BadLineDoesNotStop ==
    FileParsed =>
        /\ call.ret.stats.LinesRead = Len(ParsedLines)
        /\ \A i, j \in DOMAIN ParsedLines :
              (i < j /\ ~ParsedLines[i].valid /\ Accepted(ParsedLines[j])) =>
                  KeyOf(ParsedLines[j]) \in DOMAIN call.ret.entries
        /\ call.ret.entries =
              processFileForCache(Regular(1, WithoutBadLines(ParsedLines)), tz).entries

\* A bad line first, then two lines that each give a record.
C26_Witness ==
    /\ FileParsed
    /\ ParsedLines = << BadLine, LineB, LineA1 >>
    /\ Cardinality(DOMAIN call.ret.entries) = 2
    /\ call.ret.stats.LinesParsed = 2

\* The index of the first line of the file that gives a record for key k.
FirstAccepted(k) ==
    CHOOSE i \in DOMAIN ParsedLines :
        /\ Accepted(ParsedLines[i]) /\ KeyOf(ParsedLines[i]) = k
        /\ \A j \in 1..(i - 1) :
              ~(Accepted(ParsedLines[j]) /\ KeyOf(ParsedLines[j]) = k)

-----------------------------------------------------------------------------
(* Phase 2 and the shared state.                                           *)

\* The slots of the results array that a step writes.
WrittenSlots == { j \in DOMAIN results : results'[j] # results[j] }

\* C28: while the parse tasks run, the cache snapshot (file entries and
\* manifest), the merged record map and the other locals of the coordinator
\* are unchanged; a step of task j writes slot j of results and no other,
\* and writes it once; the cache and the merged map change only in the
\* sequential phases, and phase 3 starts only when every task is done.
C28_Phase2Frame ==
    [][ /\ pc = "phase2" =>
              /\ cache' = cache
              /\ allEntries' = allEntries
              /\ stats' = stats /\ dirty' = dirty
              /\ existingFiles' = existingFiles /\ misses' = misses
              /\ Len(results') = Len(results)
              /\ Cardinality(WrittenSlots) <= 1
              /\ \A j \in WrittenSlots :
                    /\ task[j] = "running" /\ task'[j] = "stored"
                    /\ results[j] = ZeroResult
                    /\ results'[j].path = misses[j].path
              /\ pc' # "phase2" =>
                    /\ pc' = "phase3"
                    /\ \A j \in DOMAIN task : task[j] = "done"
                    /\ results' = results
        /\ (cache' # cache \/ allEntries' # allEntries) =>
              pc \in { "load", "discover", "process", "phase1", "phase3" }
      ]_vars

\* Two misses in flight, one parsed and one parsing, after a hit was merged
\* in phase 1 from a cache that holds entries.
C28_Witness ==
    /\ pc = "phase2"
    /\ Len(misses) = 2
    /\ stats.hits = 1
    /\ allEntries # EmptyMap
    /\ \E i, j \in DOMAIN task : task[i] = "stored" /\ task[j] = "running"
    /\ \E i \in DOMAIN results : results[i] # ZeroResult

-----------------------------------------------------------------------------
(* The string table of the payload.                                        *)

\* saveCache holds the payload it built from cache.
PayloadBuilt ==
    /\ pc \in { "save_open", "save_write", "save_remove", "save_rename" }
    /\ saveBuf.kind = "bin"

StringTable == saveBuf.enc.StringTable

\* The (file, position) pairs of the records of cache.
RecordSlots ==
    UNION { { << f, i >> : i \in DOMAIN cache.Files[f].Entries } :
              f \in DOMAIN cache.Files }

\* C29: in the payload built by saveCache the string table holds the
\* timezone at index 0, holds each distinct string once (the timezone, the
\* dates and the models of the records, and nothing else), and the DateIdx
\* and ModelIdx of every encoded record are indices of the table at which
\* the record's date and model stand.
C29_StringTable ==
    PayloadBuilt =>
        /\ Len(StringTable) >= 1
        /\ StringTable[0 + 1] = cache.Timezone
        /\ \A i, j \in DOMAIN StringTable :
              StringTable[i] = StringTable[j] => i = j
        /\ Range(StringTable) =
              { cache.Timezone }
                \cup { cache.Files[s[1]].Entries[s[2]].Date : s \in RecordSlots }
                \cup { cache.Files[s[1]].Entries[s[2]].Model : s \in RecordSlots }
        /\ DOMAIN saveBuf.enc.Files = DOMAIN cache.Files
        /\ \A f \in DOMAIN cache.Files :
              /\ Len(saveBuf.enc.Files[f].Entries) = Len(cache.Files[f].Entries)
              /\ \A i \in DOMAIN cache.Files[f].Entries :
                    LET e  == cache.Files[f].Entries[i]
                        ee == saveBuf.enc.Files[f].Entries[i]
                    IN  /\ ee.DateIdx \in 0..(Len(StringTable) - 1)
                        /\ ee.ModelIdx \in 0..(Len(StringTable) - 1)
                        /\ StringTable[ee.DateIdx + 1] = e.Date
                        /\ StringTable[ee.ModelIdx + 1] = e.Model

\* A payload in which two records share a date and a model, with more
\* strings after the timezone.
C29_Witness ==
    /\ PayloadBuilt
    /\ Len(StringTable) >= 4
    /\ \E s1, s2 \in RecordSlots :
          /\ s1 # s2
          /\ saveBuf.enc.Files[s1[1]].Entries[s1[2]].DateIdx =
                saveBuf.enc.Files[s2[1]].Entries[s2[2]].DateIdx
          /\ saveBuf.enc.Files[s1[1]].Entries[s1[2]].ModelIdx =
                saveBuf.enc.Files[s2[1]].Entries[s2[2]].ModelIdx

-----------------------------------------------------------------------------
(* SpecEdit: a log file is appended to while the first run is under way.   *)

\* A log file is appended to after the phase-1 stat of the running program
\* has seen it: its size and its modification time change.
EditDuringRun(f) ==
    /\ run = 1
    /\ pc \in { "phase1", "phase2", "phase3", "output" }
    /\ quiet
    /\ f \in existingFiles
    /\ fsFiles[f].present /\ fsFiles[f].readable
    /\ fsFiles' = [fsFiles EXCEPT ![f].lines = Append(@, LineC),
                                  ![f].mtime = @ + 1]
    /\ quiet' = FALSE
    /\ UNCHANGED << fsDirs, tz, now, diskVars, mainVars, pc, cache, procVars,
                    saveVars, atLoad, lastOut, console, call >>

InitEdit ==
    /\ tz = "UTC"
    /\ now = 10
    /\ fsFiles = [ p \in FilePaths |->
                     IF p = fileB THEN Regular(2, Content1) ELSE NoFile ]
    /\ fsDirs = AllDirs
    /\ disk = EmptyDisk
    /\ InitLocals

NextEdit == Main \/ Restart \/ (\E f \in FilePaths : EditDuringRun(f))

SpecEdit == InitEdit /\ [][NextEdit]_vars

\* The index in misses of the last miss recorded for path f.
LastMiss(f) ==
    Max({ i \in DOMAIN misses : misses[i].path = f })

MissPathsOfRun == { misses[i].path : i \in DOMAIN misses }

\* The metadata a snapshot holds for f is not that of the file.
MetadataDiffers(c, f) ==
    \/ c.Files[f].ModTime # Stat(f).mtime
    \/ c.Files[f].Size # Stat(f).size

\* The records of the entry of f are a parse of the file as it is.
RecordsCurrent(f) ==
    cache.Files[f].Entries \in EntrySlices(processFileForCache(fsFiles[f], tz).entries)

\* C30: for every miss, phase 3 leaves as the cache entry of the file the
\* records parsed in this run with the (modTime, size) of the phase-1 stat,
\* taken before the file was read; so when the file changes after that stat
\* the stored metadata differs from the file's, and the next run treats the
\* file as a miss and does not serve stale records.
C30_MissEntryFromPhase1Stat ==
    /\ AfterProcess =>
          \A f \in MissPathsOfRun :
              LET i == LastMiss(f)
              IN  /\ f \in DOMAIN cache.Files
                  /\ cache.Files[f] =
                        FileCacheEntry(misses[i].mtime, misses[i].size,
                                       results[i].entries)
                  /\ (run = 1 /\ fsFiles[f].mtime # misses[i].mtime) =>
                        MetadataDiffers(cache, f)
    /\ (run = 2 /\ AfterProcess /\ cacheValid) =>
          /\ \A f \in Range(files) \cap DOMAIN loaded.cache.Files :
                (~Stat(f).err /\ MetadataDiffers(loaded.cache, f)) => f \in opened
          /\ \A f \in DOMAIN cache.Files : RecordsCurrent(f)

\* The file was appended to during the first run between its stat and its
\* read: the snapshot holds the three records read with the metadata of the
\* two-line file, and the second run parsed the file again.
C30_Witness ==
    /\ run = 2
    /\ AfterProcess
    /\ cacheValid
    /\ fileB \in DOMAIN loaded.cache.Files
    /\ MetadataDiffers(loaded.cache, fileB)
    /\ Len(loaded.cache.Files[fileB].Entries) = 3
    /\ loaded.cache.Files[fileB].Size = 2
    /\ opened = { fileB }
    /\ stats.hits = 0

\* The file was appended to after it was read: the snapshot holds the two
\* records of the old contents, and the second run parsed the file again.
C30_WitnessAfterRead ==
    /\ run = 2
    /\ AfterProcess
    /\ cacheValid
    /\ fileB \in DOMAIN loaded.cache.Files
    /\ MetadataDiffers(loaded.cache, fileB)
    /\ Len(loaded.cache.Files[fileB].Entries) = 2
    /\ opened = { fileB }
    /\ Len(cache.Files[fileB].Entries) = 3

-----------------------------------------------------------------------------
(* Warm runs and cold runs (checked under SpecMerge).                      *)

\* The records a parse of f gives now, as the slice phase 2 would store.
ColdSlice(f) ==
    CHOOSE sl \in EntrySlices(processFileForCache(fsFiles[f], tz).entries) : TRUE

\* processWithCacheLoaded with an empty cache: every file whose stat
\* succeeds is a miss, and phase 3 merges the parsed records in list order.
RECURSIVE ColdFold(_, _)
ColdFold(acc, i) ==
    IF i > Len(files) THEN acc
    ELSE IF Stat(files[i]).err THEN ColdFold(acc, i + 1)
    ELSE ColdFold(mergeEntries(acc, ColdSlice(files[i]), 1), i + 1)

ColdResult == ColdFold([ all |-> EmptyMap, totalNew |-> 0, conflicts |-> 0 ], 1).all

\* The cache entry of every hit holds what parsing the file yields.
HitsMatchParse ==
    \A f \in HitPaths :
        Range(CacheAtStart.Files[f].Entries) = Range(ColdSlice(f))

\* C31: a warm run is equivalent to a cold run: with a valid cache whose
\* entry for each hit file equals what parsing the file yields,
\* processWithCacheLoaded returns the key-to-record map it returns for the
\* same file list with an empty cache.
C31_WarmEqualsCold ==
    (pc = "output" /\ cacheValid /\ HitsMatchParse) => allEntries = ColdResult

\* What does hold of a warm run: the keys of a cold run, each with the token
\* sum the cold run gives it.
WarmSameKeysAndSums ==
    (pc = "output" /\ cacheValid /\ HitsMatchParse) =>
        /\ DOMAIN allEntries = DOMAIN ColdResult
        /\ \A k \in DOMAIN allEntries :
              entryTotalTokens(allEntries[k]) = entryTotalTokens(ColdResult[k])

-----------------------------------------------------------------------------
(* Partial discovery against a full walk.                                  *)

\* What a full recursive walk of the tree as it is returns.
FullWalkFiles == Range(Walk(projectsDir).files)

\* The snapshot is the one a previous run left and directories keep the
\* rule that adding or removing an entry changes the modification time:
\* the projects directory is manifested, and a manifested directory with
\* the manifest's modification time has the entries it had then: its
\* subdirectories are manifested, its files that os.Stat describes are
\* cached, and its cached files exist.
ManifestTracksTree ==
    /\ cacheValid
    /\ projectsDir \in DOMAIN CacheAtStart.Dirs
    /\ \A d \in (DOMAIN CacheAtStart.Dirs) \ ChangedDirs :
          /\ \A x \in DirPaths \ { projectsDir } :
                (fsDirs[x].present /\ Dir(x) = d) => x \in DOMAIN CacheAtStart.Dirs
          /\ \A f \in FilePaths :
                Dir(f) = d =>
                    /\ ~Stat(f).err => f \in DOMAIN CacheAtStart.Files
                    /\ f \in DOMAIN CacheAtStart.Files => fsFiles[f].present

PartialWalked == AfterDiscover /\ ~dStats.fullWalk /\ ManifestTracksTree

C32_WitnessAdded ==
    /\ PartialWalked
    /\ ChangedDirs = { dirA }
    /\ fileB \notin DOMAIN CacheAtStart.Files
    /\ fileB \in Range(files)
    /\ fileTop \in Range(files)

-----------------------------------------------------------------------------
(* SpecWalks: consecutive runs from a snapshot, for the safety full walk.  *)

WalksFileSystem ==
    [ p \in FilePaths |-> IF p = fileB THEN Regular(2, Content1) ELSE NoFile ]

\* No cache, or the snapshot of a run whose last full walk was one, five or
\* six minutes ago.
InitWalks ==
    /\ tz = "UTC"
    /\ now = 10
    /\ fsFiles = WalksFileSystem
    /\ fsDirs = AllDirs
    /\ \/ disk = EmptyDisk
       \/ \E t \in { 9, 5, 4 } :
             disk = [EmptyDisk EXCEPT
                        ![cachePath] = GoodBin(RunSnapshot(fsFiles, "UTC", t, {}))]
    /\ InitLocals

NextWalks == Main \/ Restart

SpecWalks == InitWalks /\ [][NextWalks]_vars

\* The time of the last full walk made before this run started: that of the
\* previous run's cache when it ended, or of the snapshot the first run
\* found.
LastFullWalkBefore ==
    IF run > 1 THEN lastOut.snap.LastFullWalk
    ELSE IF atLoad[cachePath].kind = "bin"
         THEN loadCache(atLoad[cachePath], atLoad[legacyPath]).cache.LastFullWalk
         ELSE ZeroTime

InRun == pc \notin { "load", "exit" }

\* C33: the safety full walk cannot be postponed by partial walks: the
\* last-full-walk timestamp of the cache is set only by a discovery that
\* does a full walk, to the time of that walk, and a partial-walk run
\* leaves it as loaded, never later than the last full walk made; so a run
\* started more than five minutes after the last full walk does a full
\* walk, whatever partial walks came between.
C33_FullWalkNotPostponed ==
    /\ [] /\ (AfterDiscover /\ ~dStats.fullWalk) =>
                /\ cacheValid
                /\ cache.LastFullWalk = loaded.cache.LastFullWalk
                /\ cache.LastFullWalk <= LastFullWalkBefore
          /\ (AfterDiscover /\ dStats.fullWalk) => cache.LastFullWalk = now
          /\ (AfterDiscover /\ now - LastFullWalkBefore > fullWalkInterval) =>
                dStats.fullWalk
    /\ [][ (InRun /\ cache'.LastFullWalk # cache.LastFullWalk) =>
              /\ pc = "discover"
              /\ dStats'.fullWalk
              /\ cache'.LastFullWalk = now ]_vars

\* The first run did a partial walk four minutes after the last full walk
\* and left the timestamp alone; the second run, a minute later, walked in
\* full.
C33_Witness ==
    /\ run = 2
    /\ AfterDiscover
    /\ dStats.fullWalk
    /\ lastOut.snap.LastFullWalk = 5
    /\ now = 11
    /\ cacheValid
    /\ loaded.cache.LastFullWalk = 5
    /\ pc = "exit"

-----------------------------------------------------------------------------
(* SpecMergeFair: processWithCacheLoaded under a fair scheduler.           *)

\* The Go scheduler runs every goroutine that can take a step: a goroutine
\* that can send on sem, parse or return, and the coordinator at wg.Wait(),
\* is not left waiting for ever.
FairTasks ==
    /\ \A i \in 1..Cardinality(FilePaths) :
          /\ WF_vars(i \in DOMAIN task /\ TaskAcquire(i))
          /\ WF_vars(i \in DOMAIN task /\ TaskParse(i))
          /\ WF_vars(i \in DOMAIN task /\ TaskRelease(i))
    /\ WF_vars(WaitDone)

\* The list of a partial walk, which findJSONLFiles sorts: the order of the
\* list decides only the order of the queue, not whether it drains.
InitMergeSorted == InitMerge /\ files = SortStrings(Range(files))

SpecMergeFair == InitMergeSorted /\ [][Process]_vars /\ FairTasks

\* wg.Wait() has just returned: one result per queued miss, every slot free.
Phase2Completed ==
    /\ pc = "phase3"
    /\ idx = 1
    /\ Len(results) = Len(misses)
    /\ \A i \in DOMAIN misses : results[i].path = misses[i].path
    /\ \A i \in DOMAIN task : task[i] = "done"
    /\ sem = 0

\* C34: phase 2 always completes: under fair scheduling every queued miss
\* acquires a slot, stores its result and releases the slot, also with more
\* misses than slots, and the wait returns with one result per miss and all
\* slots free.
C34_Phase2Completes == (pc = "phase2") ~> Phase2Completed

\* More misses than slots: both slots are taken and a third goroutine waits.
C34_Witness ==
    /\ pc = "phase2"
    /\ Len(misses) > NumCPU
    /\ sem = NumCPU
    /\ \E i \in DOMAIN task : task[i] = "spawned"

-----------------------------------------------------------------------------
(* The cache's file map once processWithCacheLoaded has returned.           *)

\* C35: after processWithCacheLoaded returns, every path with an entry in
\* the cache's file map is in this run's discovered file list, every miss of
\* this run has an entry (with the metadata of its stat), and the entries of
\* files that were not discovered are gone.
C35_FileMapMatchesRun ==
    pc = "output" =>
        /\ DOMAIN cache.Files \subseteq Range(files)
        /\ \A i \in DOMAIN misses :
              /\ misses[i].path \in DOMAIN cache.Files
              /\ cache.Files[misses[i].path].ModTime = misses[i].mtime
              /\ cache.Files[misses[i].path].Size = misses[i].size
        /\ NotDiscovered \cap DOMAIN cache.Files = {}

\* A cached path that was not discovered, next to a miss without an entry
\* at start.
C35_Witness ==
    /\ pc = "output"
    /\ cacheValid
    /\ NotDiscovered = { fileC }
    /\ fileC \notin DOMAIN cache.Files
    /\ fileB \in MissPaths
    /\ fileB \notin DOMAIN CacheAtStart.Files
    /\ fileB \in DOMAIN cache.Files

\* The discovered paths whose os.Stat fails.
StatFailed == { f \in Range(files) : Stat(f).err }

\* C36: a discovered path whose stat fails in phase 1 contributes no
\* records (every returned record is one of a file whose stat succeeded) and
\* is neither a hit nor a miss (hits + misses is the number of discovered
\* files whose stat succeeded); its cache entry, if any, is kept unchanged
\* and none is made for it; with a valid cache, no miss and no cached path
\* outside the list, dirty stays false.
C36_StatFailureSkipsFile ==
    pc = "output" =>
        /\ \A k \in DOMAIN allEntries :
              allEntries[k] \in UNION { Contributed(f) : f \in Contributors }
        /\ StatFailed \cap MissPaths = {}
        /\ stats.hits + stats.misses = Cardinality(Contributors)
        /\ \A f \in StatFailed :
              IF f \in DOMAIN CacheAtStart.Files
              THEN /\ f \in DOMAIN cache.Files
                   /\ cache.Files[f] = CacheAtStart.Files[f]
              ELSE f \notin DOMAIN cache.Files
        /\ (cacheValid /\ misses = << >> /\ NotDiscovered = {}) => ~dirty

\* The stat of p/a.jsonl fails: its cached records are not returned, its
\* entry stays, the other files are hits and dirty is false.
C36_Witness ==
    /\ pc = "output"
    /\ cacheValid
    /\ StatFailed = { fileTop }
    /\ fileTop \in DOMAIN CacheAtStart.Files
    /\ cache.Files[fileTop] = CacheAtStart.Files[fileTop]
    /\ \E r \in Range(cache.Files[fileTop].Entries) :
          r.Key \notin DOMAIN allEntries
    /\ stats.hits = Cardinality(Contributors)
    /\ stats.hits > 0
    /\ ~dirty

\* The stat of p/a.jsonl fails and it has no entry: none is made.
C36_WitnessNoEntry ==
    /\ pc = "output"
    /\ fileTop \in StatFailed
    /\ fileTop \notin DOMAIN CacheAtStart.Files
    /\ fileTop \notin DOMAIN cache.Files
    /\ misses # << >>

====
